---------------------------- MODULE Spec2Model ----------------------------
(***************************************************************************)
(* State-machine model of two subsystems of the workbench:                 *)
(*                                                                         *)
(*  - AbstractTunnelService (vs/platform/remote/common/tunnel.ts): the     *)
(*    reference-counted map of port forwards.  Promises are modelled by    *)
(*    their state (pending / resolved) and a FIFO queue of the reactions   *)
(*    registered with then/await; one reaction runs per step.              *)
(*  - MainThreadTerminalService (vs/workbench/api/browser/                 *)
(*    mainThreadTerminalService.ts): the terminal identifier table and     *)
(*    the requests of the extension host that address a terminal.          *)
(***************************************************************************)
EXTENDS Integers, Sequences, FiniteSets, TLC

\* ------------------------------------------------------------- bounds
\* Number of openTunnel invocations explored.
MaxCalls == 2

\* Number of further openTunnel invocations explored beside dispose().
MaxLateCalls == 1

\* Number of terminal instances explored.
MaxTerminals == 2
\* Number of messages to the extension host explored.
MaxSent == 6
\* Number of sendText calls a terminal instance receives.
MaxTexts == 1
\* Number of data chunks the terminal instances emit.
MaxChunks == 2
\* Number of events emitted on the terminal process proxies.
MaxEmits == 2
\* Number of latency requests explored.
MaxProbes == 2
\* Number of setTunnelProvider disposables kept, and of dispose calls on one.
MaxRegistrations == 3
MaxDisposals == 1
\* Number of errors logged.
MaxErrors == 1
\* Number of $setEnvironmentVariableCollection calls explored.
MaxEnvCalls == 3
\* Number of requests the terminal service fires, and of link provider
\* registrations.
MaxRequests == 2
MaxLinkProviders == 2
\* Number of diff subscriptions made, and of $acceptDiff calls explored.
MaxSubscriptions == 3
MaxDiffs == 2

\* ------------------------------------------------------------ constants
\* COUNT of _onRequestLatency: the round trips of one latency request.
LatencyCount == 2

Undef == "undefined"
Null == "null"

\* isPortPrivileged: ports below this number are privileged.
PrivilegedPortLimit == 1024

\* Remote hosts and ports the callers ask for.
Hosts == {"localhost", "127.0.0.1", "example.com"}
Ports == {80, 8080}

\* localPort is << >> (undefined) or <<port>>.
NoLocalPort == << >>

\* OperatingSystem values (vs/base/common/platform) and "no os given".
OperatingSystems == {"Windows", "Macintosh", "Linux"}

VARIABLES
    isWindows,       \* platform constant read by isPortPrivileged
    tunnelProvider,  \* _tunnelProvider: Undef or a provider name
    canElevate,      \* _canElevate
    canMakePublic,   \* _canMakePublic
    tunnels,         \* _tunnels: host -> id of its port map (0: no entry)
    maps,            \* the port Map objects ever created: port -> record id (0: no entry)
    recs,            \* the {refcount, value} records ever created, with their promise
    calls,           \* the openTunnel invocations that returned a promise
    observing,       \* whether the openTunnel invocations are recorded in lastCall
    lastCall,        \* the latest openTunnel invocation: arguments, forwardPort call, result
    removals,        \* removeEmptyTunnelFromMap continuations waiting behind their await
    svc,             \* the control state of AbstractTunnelService.dispose()
    registrations    \* the disposables of setTunnelProvider that callers kept, in order

tunnelVars == <<isWindows, tunnelProvider, canElevate, canMakePublic, tunnels,
                maps, recs, calls, observing, lastCall, removals, svc,
                registrations>>

VARIABLES
    instances,            \* the terminal service's instances ever created, by numeric id
    activeInstance,       \* the terminal service's active instance (0: none)
    panel,                \* the terminal panel: visible, focused
    extHostTerminalIds,   \* _extHostTerminalIds: string id -> numeric id (0: no entry)
    sent,                 \* the calls made on the extension host proxy, in order
    dataEventTracker,     \* _dataEventTracker is defined
    buffers,              \* the bufferer's map: instance id -> buffered chunks (<< >>: no entry)
    emitted,              \* instance id -> the chunks its onData has fired, in order
    capturing,            \* instance id -> the instance still records initialDataEvents
    session,              \* where the current $startSendingDataEvents began
    remoteAuthority,      \* _remoteAuthority: the extension host's remote authority, or Null
    processProxies,       \* _terminalProcessProxies: terminal id -> a proxy is registered
    proxyEvents,          \* terminal id -> the events emitted on its process proxy, in order
    probes,               \* the _onRequestLatency invocations: terminal, round trips done, outcome
    errors,               \* the errors given to the log service, in order
    collections,          \* environment variable service: extension -> the collection it holds
    envCalls,             \* the $setEnvironmentVariableCollection calls received, in order
    requests,             \* the requests the terminal service has fired: kind, terminal, proxy listeners, promise, callbacks
    linkProvider,         \* _linkProvider: the registration it refers to (0: undefined)
    linkProviders,        \* the link provider registrations made: TRUE while registered
    isDisposed,           \* dispose() has run: the listeners of _toDispose are gone
    connection,           \* IRemoteAgentService.getConnection(): its remote authority, or Null
    \* MainThreadTesting
    testSubscriptions,    \* testSubscriptions: key -> the subscription stored (0: no entry)
    subscriptions,        \* the disposables testService.subscribeToDiffs returned: resource, uri, disposed
    acceptedDiffs,        \* the $acceptDiff calls made on the extension host proxy, in order
    rootProviderCount     \* what the bridge has added to the test service's root provider count

termVars == <<instances, activeInstance, panel, extHostTerminalIds, sent,
              dataEventTracker, buffers, emitted, capturing, session,
              remoteAuthority, processProxies, proxyEvents, probes, errors,
              collections, envCalls,
              requests, linkProvider, linkProviders, isDisposed, connection>>

testVars == <<testSubscriptions, subscriptions, acceptedDiffs, rootProviderCount>>

vars == <<tunnelVars, termVars, testVars>>

\* ------------------------------------------------------------ helpers
Min(S) == CHOOSE x \in S : \A y \in S : x <= y

EmptyPortMap == [p \in Ports |-> 0]

\* Map.size of a port map.
MapSize(m) == Cardinality({p \in Ports : m[p] # 0})

\* The part of the service state the synchronous helpers read and write.
Store == [tunnels |-> tunnels, maps |-> maps, recs |-> recs, removals |-> removals]

\* Variant: only "localhost" has an alias.
getOtherLocalhost_OneWay(host) ==
    IF host = "localhost" THEN "127.0.0.1" ELSE Undef

\* --------------------------------------------------- pure functions
getOtherLocalhost(host) ==
    IF host = "localhost" THEN "127.0.0.1"
    ELSE IF host = "127.0.0.1" THEN "localhost"
    ELSE Undef

\* Variant: ports below the limit are privileged on every platform.
isPortPrivileged_OnWindowsToo(port, os) == port < PrivilegedPortLimit

isPortPrivileged(port, os) ==
    IF os # Undef
    THEN os # "Windows" /\ port < PrivilegedPortLimit
    ELSE ~isWindows /\ port < PrivilegedPortLimit

\* Variant: for a localhost alias only the other alias's map is searched.
getTunnelFromMap_OtherAliasOnly(S, remoteHost, remotePort) ==
    LET otherLocalhost == getOtherLocalhost(remoteHost)
        host == IF otherLocalhost # Undef THEN otherLocalhost ELSE remoteHost
    IN  IF S.tunnels[host] # 0 THEN S.maps[S.tunnels[host]][remotePort] ELSE 0

\* getTunnelFromMap: the record id found for (remoteHost, remotePort), 0 for
\* undefined.  For the two localhost aliases the two port maps are merged,
\* the entries of the other alias's map overriding those of the host's own.
getTunnelFromMap(S, remoteHost, remotePort) ==
    LET otherLocalhost == getOtherLocalhost(remoteHost)
        firstMap == S.tunnels[remoteHost]
        secondMap == IF otherLocalhost # Undef THEN S.tunnels[otherLocalhost] ELSE 0
    IN  IF otherLocalhost # Undef
        THEN IF firstMap # 0 /\ secondMap # 0
             THEN IF S.maps[secondMap][remotePort] # 0
                  THEN S.maps[secondMap][remotePort]
                  ELSE S.maps[firstMap][remotePort]
             ELSE IF firstMap # 0 THEN S.maps[firstMap][remotePort]
             ELSE IF secondMap # 0 THEN S.maps[secondMap][remotePort]
             ELSE 0
        ELSE IF firstMap # 0 THEN S.maps[firstMap][remotePort] ELSE 0

\* The record addTunnelToMap stores: { refcount: 1, value: tunnel }.
NewRecord(remoteHost, remotePort) ==
    [ refcount |-> 1,
      value |-> "pending",              \* state of the promise `value`
      tunnelRemoteHost |-> remoteHost,  \* the tunnel the promise may resolve to
      tunnelRemotePort |-> remotePort,
      reactions |-> << >>,              \* callbacks registered on the promise, in order
      disposeCalls |-> 0,               \* times the underlying tunnel's dispose was called
      closeWaiters |-> 0,               \* tryDisposeTunnel callbacks awaiting tunnel.dispose(true)
      openedFired |-> 0,                \* onTunnelOpened events fired with this tunnel
      closedFired |-> 0 ]               \* onTunnelClosed events fired for this tunnel

\* addTunnelToMap(remoteHost, remotePort, tunnel): creates the host's port map
\* when missing and sets the entry to a new record.
addTunnelToMap(S, remoteHost, remotePort) ==
    LET S1 == IF S.tunnels[remoteHost] = 0
              THEN [S EXCEPT !.maps = Append(@, EmptyPortMap),
                             !.tunnels[remoteHost] = Len(S.maps) + 1]
              ELSE S
        r == Len(S.recs) + 1
    IN  [S1 EXCEPT !.recs = Append(@, NewRecord(remoteHost, remotePort)),
                   !.maps[S1.tunnels[remoteHost]][remotePort] = r]

\* then(): registers a callback on record r's promise.
Then(S, r, reaction) == [S EXCEPT !.recs[r].reactions = Append(@, reaction)]

\* Variant: disposes already when one reference is left.
tryDisposeTunnel_BelowTwo(S, remoteHost, remotePort, r) ==
    IF S.recs[r].refcount <= 1
    THEN LET S1 == Then(S, r, [kind |-> "tryDispose", call |-> 0])
         IN  IF S1.tunnels[remoteHost] # 0
             THEN [S1 EXCEPT !.maps[S1.tunnels[remoteHost]][remotePort] = 0]
             ELSE S1
    ELSE S

\* Variant: registers the disposal but keeps the entry in the map.
tryDisposeTunnel_KeepsEntry(S, remoteHost, remotePort, r) ==
    IF S.recs[r].refcount <= 0
    THEN Then(S, r, [kind |-> "tryDispose", call |-> 0])
    ELSE S

\* Variant: disposes whatever the refcount.
tryDisposeTunnel_Always(S, remoteHost, remotePort, r) ==
    LET S1 == Then(S, r, [kind |-> "tryDispose", call |-> 0])
    IN  IF S1.tunnels[remoteHost] # 0
        THEN [S1 EXCEPT !.maps[S1.tunnels[remoteHost]][remotePort] = 0]
        ELSE S1

\* Variant: the disposal runs before the callbacks registered earlier.
tryDisposeTunnel_DisposesFirst(S, remoteHost, remotePort, r) ==
    IF S.recs[r].refcount <= 0
    THEN LET S1 == [S EXCEPT !.recs[r].reactions = <<[kind |-> "tryDispose", call |-> 0]>> \o @]
         IN  IF S1.tunnels[remoteHost] # 0
             THEN [S1 EXCEPT !.maps[S1.tunnels[remoteHost]][remotePort] = 0]
             ELSE S1
    ELSE S

\* tryDisposeTunnel(remoteHost, remotePort, tunnel): when the refcount is not
\* positive, registers the disposal on the promise and deletes the port from
\* the host's map.
tryDisposeTunnel(S, remoteHost, remotePort, r) ==
    IF S.recs[r].refcount <= 0
    THEN LET S1 == Then(S, r, [kind |-> "tryDispose", call |-> 0])
         IN  IF S1.tunnels[remoteHost] # 0
             THEN [S1 EXCEPT !.maps[S1.tunnels[remoteHost]][remotePort] = 0]
             ELSE S1
    ELSE S

\* The dispose function of the handle makeTunnel returns for the tunnel of
\* record t: looks the record up under the tunnel's own host and port.
handleDispose(S, t) ==
    LET host == S.recs[t].tunnelRemoteHost
        port == S.recs[t].tunnelRemotePort
        existingHost == S.tunnels[host]
        existing == IF existingHost # 0 THEN S.maps[existingHost][port] ELSE 0
    IN  IF existing # 0
        THEN tryDisposeTunnel([S EXCEPT !.recs[existing].refcount = @ - 1],
                              host, port, existing)
        ELSE S

\* Variant: closes without resetting the refcount.
closeTunnel_KeepsRefcount(S, remoteHost, remotePort) ==
    LET portMap == S.tunnels[remoteHost]
        value == IF portMap # 0 THEN S.maps[portMap][remotePort] ELSE 0
    IN  IF value # 0
        THEN tryDisposeTunnel(S, remoteHost, remotePort, value)
        ELSE S

\* closeTunnel(remoteHost, remotePort).
closeTunnel(S, remoteHost, remotePort) ==
    LET portMap == S.tunnels[remoteHost]
        value == IF portMap # 0 THEN S.maps[portMap][remotePort] ELSE 0
    IN  IF value # 0
        THEN tryDisposeTunnel([S EXCEPT !.recs[value].refcount = 0],
                              remoteHost, remotePort, value)
        ELSE S

\* removeEmptyTunnelFromMap up to its await: captures the host's map and
\* whether it holds an entry for the port (`await tunnel` awaits the record
\* object itself, so the awaited result is the record or undefined).
removeEmptyTunnelFromMap(S, remoteHost, remotePort) ==
    LET hostMap == S.tunnels[remoteHost]
    IN  IF hostMap # 0
        THEN [S EXCEPT !.removals = Append(@,
                 [hostMap |-> hostMap, remoteHost |-> remoteHost, remotePort |-> remotePort,
                  tunnelResult |-> S.maps[hostMap][remotePort]])]
        ELSE S

\* createWithProvider's creationInfo.elevationRequired.
elevationRequired(remotePort, localPort, elevateIfNeeded) ==
    LET preferredLocalPort == IF localPort = NoLocalPort THEN remotePort ELSE localPort[1]
    IN  IF elevateIfNeeded THEN isPortPrivileged(preferredLocalPort, Undef) ELSE FALSE


\* ------------------------------------------------------------ initial state
NoCall ==
    [ addressProvider |-> FALSE, host |-> "localhost", port |-> 0,
      localPort |-> NoLocalPort, elevateIfNeeded |-> FALSE, isPublic |-> FALSE,
      forwarded |-> "no", elevationRequired |-> FALSE, localAddressPort |-> NoLocalPort,
      public |-> FALSE, result |-> "none", call |-> 0 ]


\* The service as constructed: no provider, no tunnels.
\* The service after construction; `late` is the number of openTunnel
\* invocations explored beyond MaxCalls.
TunnelInitWith(late) ==
    /\ tunnelProvider = Undef
    /\ canElevate = FALSE
    /\ canMakePublic = FALSE
    /\ tunnels = [h \in Hosts |-> 0]
    /\ maps = << >>
    /\ recs = << >>
    /\ calls = << >>
    /\ lastCall = NoCall
    /\ removals = << >>
    /\ svc = [pc |-> "idle", map |-> 0, mapCur |-> 0, recCur |-> 0, late |-> late]
    /\ registrations = << >>

TunnelInit == TunnelInitWith(0)

SetStore(S) ==
    /\ tunnels' = S.tunnels
    /\ maps' = S.maps
    /\ recs' = S.recs
    /\ removals' = S.removals

\* ------------------------------------------------------------ operations
\* setTunnelProvider(provider, features).
SetTunnelProvider(provider, features) ==
    /\ tunnelProvider' = provider
    /\ canElevate' = IF provider = Undef THEN FALSE ELSE features.elevation
    /\ canMakePublic' = IF provider = Undef THEN FALSE ELSE features.public
    /\ UNCHANGED <<termVars, testVars, registrations, isWindows, observing, tunnels, maps, recs, calls, lastCall, removals, svc>>

\* The disposable setTunnelProvider returns: its dispose does nothing when
\* the provider was undefined, and otherwise clears the provider and features.
Disposable(provider) == [noop |-> provider = Undef, provider |-> provider, disposals |-> 0]

\* setTunnelProvider(provider, features) by a caller that keeps the disposable.
RegisterTunnelProvider(provider, features) ==
    /\ Len(registrations) < MaxRegistrations
    /\ tunnelProvider' = provider
    /\ canElevate' = IF provider = Undef THEN FALSE ELSE features.elevation
    /\ canMakePublic' = IF provider = Undef THEN FALSE ELSE features.public
    /\ registrations' = Append(registrations, Disposable(provider))
    /\ UNCHANGED <<termVars, testVars, isWindows, observing, tunnels, maps, recs, calls, lastCall, removals, svc>>

\* dispose() of the i-th disposable setTunnelProvider returned.
DisposeRegistration(i) ==
    /\ i \in 1..Len(registrations)
    /\ registrations[i].disposals < MaxDisposals
    /\ registrations' = [registrations EXCEPT ![i].disposals = @ + 1]
    /\ IF registrations[i].noop
       THEN UNCHANGED <<tunnelProvider, canElevate, canMakePublic>>
       ELSE /\ tunnelProvider' = Undef
            /\ canElevate' = FALSE
            /\ canMakePublic' = FALSE
    /\ UNCHANGED <<termVars, testVars, isWindows, observing, tunnels, maps, recs, calls, lastCall, removals, svc>>

\* retainOrCreateTunnel (abstract in AbstractTunnelService; the implementation
\* of the concrete service): retains the record getTunnelFromMap finds,
\* otherwise creates one with the provider when there is a provider.
\* outcome: "retained", "create" (createWithProvider is to be called) or "none".
retainOrCreateTunnel(S, remoteHost, remotePort) ==
    LET existing == getTunnelFromMap(S, remoteHost, remotePort)
    IN  IF existing # 0
        THEN [outcome |-> "retained", rec |-> existing,
              store |-> [S EXCEPT !.recs[existing].refcount = @ + 1]]
        ELSE IF tunnelProvider # Undef
        THEN [outcome |-> "create", rec |-> 0, store |-> S]
        ELSE [outcome |-> "none", rec |-> 0, store |-> S]

\* What the latest openTunnel invocation did: its arguments (remoteHost after
\* the 'localhost' default), the forwardPort call it made ("no" call, or what
\* the provider returned: "promise" or "none") with the creationInfo and
\* tunnelOptions passed, and what it returned: "undefined" or "promise", then
\* the number of the invocation among those that returned a promise.
CallInfo(addressProvider, host, remotePort, localPort, elevateIfNeeded, isPublic, forwarded, result, call) ==
    [ addressProvider |-> addressProvider, host |-> host, port |-> remotePort,
      localPort |-> localPort, elevateIfNeeded |-> elevateIfNeeded, isPublic |-> isPublic,
      forwarded |-> forwarded,
      elevationRequired |-> IF forwarded = "no" THEN FALSE
                            ELSE elevationRequired(remotePort, localPort, elevateIfNeeded),
      localAddressPort |-> IF forwarded = "no" THEN NoLocalPort ELSE localPort,
      public |-> IF forwarded = "no" THEN FALSE ELSE isPublic,
      result |-> result, call |-> call ]

Observe(info) == lastCall' = IF observing THEN info ELSE lastCall

\* An openTunnel invocation that returned a promise: the key it asked for,
\* the record whose promise it awaits and what its own promise resolved to
\* ("pending", "undefined" or "handle").
PendingCall(host, remotePort, rec) ==
    [host |-> host, port |-> remotePort, rec |-> rec, st |-> "pending"]

\* openTunnel(addressProvider, remoteHost, remotePort, localPort,
\* elevateIfNeeded, isPublic).  `returned` is the provider's answer when
\* forwardPort is called: "promise" or "none" (undefined).
OpenTunnel(addressProvider, remoteHost, remotePort, localPort, elevateIfNeeded, isPublic, returned) ==
    LET host == IF remoteHost = Undef THEN "localhost" ELSE remoteHost
        c == Len(calls) + 1
        got == retainOrCreateTunnel(Store, host, remotePort)
        info(forwarded, result, call) ==
            CallInfo(addressProvider, host, remotePort, localPort, elevateIfNeeded,
                     isPublic, forwarded, result, call)
        open == [kind |-> "open", call |-> c]
    IN  /\ IF ~addressProvider
           THEN /\ Observe(info("no", "undefined", 0))
                /\ UNCHANGED <<tunnels, maps, recs, removals, calls>>
           ELSE IF got.outcome = "retained"
           THEN /\ c <= MaxCalls + svc.late
                /\ Observe(info("no", "promise", c))
                /\ calls' = Append(calls, PendingCall(host, remotePort, got.rec))
                /\ SetStore(Then(got.store, got.rec, open))
           ELSE IF got.outcome = "none"
           THEN /\ Observe(info("no", "undefined", 0))
                /\ UNCHANGED <<tunnels, maps, recs, removals, calls>>
           ELSE IF returned = "promise"
           THEN /\ c <= MaxCalls + svc.late
                /\ Observe(info("promise", "promise", c))
                /\ calls' = Append(calls, PendingCall(host, remotePort, Len(recs) + 1))
                /\ SetStore(Then(addTunnelToMap(Store, host, remotePort), Len(recs) + 1, open))
           ELSE /\ Observe(info("none", "undefined", 0))
                /\ UNCHANGED <<tunnels, maps, recs, removals, calls>>
        /\ UNCHANGED <<termVars, testVars, registrations, isWindows, observing, tunnelProvider, canElevate, canMakePublic, svc>>

\* The provider settles the promise it returned from forwardPort.
ResolveTunnel(r, v) ==
    /\ r \in 1..Len(recs)
    /\ recs[r].value = "pending"
    /\ recs' = [recs EXCEPT ![r].value = v]
    /\ UNCHANGED <<termVars, testVars, registrations, isWindows, observing, tunnelProvider, canElevate, canMakePublic, tunnels,
                   maps, calls, lastCall, removals, svc>>

\* Whether the first callback waiting on record r's settled promise is of `kind`.
NextReaction(r, kind) ==
    /\ r \in 1..Len(recs)
    /\ recs[r].value # "pending"
    /\ recs[r].reactions # << >>
    /\ Head(recs[r].reactions).kind = kind

Popped(S, r) == [S EXCEPT !.recs[r].reactions = Tail(@)]

\* Variant: a handle is made of whatever the promise resolved to.
openTunnelResult_AlwaysHandle(value) == "handle"

\* What openTunnel's promise resolves to for the value of the record's
\* promise: undefined for undefined, otherwise the handle makeTunnel makes.
openTunnelResult(value) == IF value = "undefined" THEN "undefined" ELSE "handle"

\* Variant: onTunnelOpened fires for the first handle of a tunnel only.
OpenTunnelThen_FiresOncePerTunnel(r) ==
    /\ NextReaction(r, "open")
    /\ LET c == Head(recs[r].reactions).call
           S == Popped(Store, r)
       IN  IF openTunnelResult(recs[r].value) = "undefined"
           THEN /\ SetStore(removeEmptyTunnelFromMap(S, calls[c].host, calls[c].port))
                /\ calls' = [calls EXCEPT ![c].st = "undefined"]
           ELSE /\ SetStore([S EXCEPT !.recs[r].openedFired = 1])
                /\ calls' = [calls EXCEPT ![c].st = "handle"]
    /\ UNCHANGED <<termVars, testVars, registrations, isWindows, observing, tunnelProvider, canElevate, canMakePublic, lastCall, svc>>

\* openTunnel's `resolvedTunnel.then(tunnel => ...)` callback.
OpenTunnelThen(r) ==
    /\ NextReaction(r, "open")
    /\ LET c == Head(recs[r].reactions).call
           S == Popped(Store, r)
       IN  IF openTunnelResult(recs[r].value) = "undefined"
           THEN /\ SetStore(removeEmptyTunnelFromMap(S, calls[c].host, calls[c].port))
                /\ calls' = [calls EXCEPT ![c].st = "undefined"]
           ELSE /\ SetStore([S EXCEPT !.recs[r].openedFired = @ + 1])
                /\ calls' = [calls EXCEPT ![c].st = "handle"]
    /\ UNCHANGED <<termVars, testVars, registrations, isWindows, observing, tunnelProvider, canElevate, canMakePublic, lastCall, svc>>

\* removeEmptyTunnelFromMap after its await.
RemoveEmptyTunnelResume ==
    /\ removals # << >>
    /\ LET t == Head(removals)
           maps1 == IF t.tunnelResult = 0
                    THEN [maps EXCEPT ![t.hostMap][t.remotePort] = 0]
                    ELSE maps
       IN  /\ maps' = maps1
           /\ tunnels' = IF MapSize(maps1[t.hostMap]) = 0
                         THEN [tunnels EXCEPT ![t.remoteHost] = 0]
                         ELSE tunnels
    /\ removals' = Tail(removals)
    /\ UNCHANGED <<termVars, testVars, registrations, isWindows, observing, tunnelProvider, canElevate, canMakePublic, recs,
                   calls, lastCall, svc>>

\* dispose() of the handle that openTunnel invocation c resolved to.
HandleDispose(c) ==
    /\ c \in 1..Len(calls)
    /\ calls[c].st = "handle"
    /\ SetStore(handleDispose(Store, calls[c].rec))
    /\ UNCHANGED <<termVars, testVars, registrations, isWindows, observing, tunnelProvider, canElevate, canMakePublic, calls,
                   lastCall, svc>>

\* closeTunnel(remoteHost, remotePort).
CloseTunnel(remoteHost, remotePort) ==
    /\ SetStore(closeTunnel(Store, remoteHost, remotePort))
    /\ UNCHANGED <<termVars, testVars, registrations, isWindows, observing, tunnelProvider, canElevate, canMakePublic, calls,
                   lastCall, svc>>

\* tryDisposeTunnel's `tunnel.value.then(async tunnel => ...)` callback up to
\* its await: calls the underlying tunnel's dispose(true).
TryDisposeThen(r) ==
    /\ NextReaction(r, "tryDispose")
    /\ recs' = IF recs[r].value = "tunnel"
               THEN [recs EXCEPT ![r].reactions = Tail(@),
                                 ![r].disposeCalls = @ + 1,
                                 ![r].closeWaiters = @ + 1]
               ELSE [recs EXCEPT ![r].reactions = Tail(@)]
    /\ UNCHANGED <<termVars, testVars, registrations, isWindows, observing, tunnelProvider, canElevate, canMakePublic, tunnels,
                   maps, calls, lastCall, removals, svc>>

\* The underlying tunnel's dispose(true) has completed: the callback resumes
\* and fires onTunnelClosed.
TunnelDisposed(r) ==
    /\ r \in 1..Len(recs)
    /\ recs[r].closeWaiters > 0
    /\ recs' = [recs EXCEPT ![r].closeWaiters = @ - 1, ![r].closedFired = @ + 1]
    /\ UNCHANGED <<termVars, testVars, registrations, isWindows, observing, tunnelProvider, canElevate, canMakePublic, tunnels,
                   maps, calls, lastCall, removals, svc>>

\* ---------------------------------------------- AbstractTunnelService.dispose
\* The entries of port map m the live Map iterator has not passed (entries
\* are appended in the order the records are created).
EntriesAfter(S, m, cur) == {r \in {S.maps[m][p] : p \in Ports} : r > cur}

\* The port maps of _tunnels the live iterator has not passed.
MapsAfter(S, cur) == {m \in {S.tunnels[h] : h \in Hosts} : m > cur}

\* dispose() from the top of its inner loop to its next await, or to its end.
RECURSIVE disposeLoop(_, _)
disposeLoop(S, v) ==
    IF v.map # 0
    THEN IF EntriesAfter(S, v.map, v.recCur) # {}
         THEN LET r == Min(EntriesAfter(S, v.map, v.recCur))
              IN  [store |-> Then(S, r, [kind |-> "svcDispose", call |-> 0]),
                   svc |-> [v EXCEPT !.pc = "awaitThen", !.recCur = r]]
         ELSE disposeLoop([S EXCEPT !.maps[v.map] = EmptyPortMap], [v EXCEPT !.map = 0])
    ELSE IF MapsAfter(S, v.mapCur) # {}
         THEN LET m == Min(MapsAfter(S, v.mapCur))
              IN  disposeLoop(S, [v EXCEPT !.map = m, !.mapCur = m, !.recCur = 0])
         ELSE [store |-> [S EXCEPT !.tunnels = [h \in Hosts |-> 0]],
               svc |-> [v EXCEPT !.pc = "done"]]

\* dispose() is called (once in the life of the service).
DisposeService ==
    /\ svc.pc = "idle"
    /\ LET n == disposeLoop(Store, svc)
       IN  SetStore(n.store) /\ svc' = n.svc
    /\ UNCHANGED <<termVars, testVars, registrations, isWindows, observing, tunnelProvider, canElevate, canMakePublic, calls, lastCall>>

\* dispose()'s `value.then(tunnel => tunnel?.dispose())` callback.
DisposeServiceThen(r) ==
    /\ NextReaction(r, "svcDispose")
    /\ IF recs[r].value = "tunnel"
       THEN /\ recs' = [recs EXCEPT ![r].reactions = Tail(@), ![r].disposeCalls = @ + 1]
            /\ svc' = [svc EXCEPT !.pc = "awaitDispose"]
       ELSE /\ recs' = [recs EXCEPT ![r].reactions = Tail(@)]
            /\ svc' = [svc EXCEPT !.pc = "loop"]
    /\ UNCHANGED <<termVars, testVars, registrations, isWindows, observing, tunnelProvider, canElevate, canMakePublic, tunnels,
                   maps, calls, lastCall, removals>>

\* The underlying tunnel's dispose() that dispose() awaits has completed.
DisposeServiceTunnelDisposed ==
    /\ svc.pc = "awaitDispose"
    /\ svc' = [svc EXCEPT !.pc = "loop"]
    /\ UNCHANGED <<termVars, testVars, registrations, isWindows, observing, tunnelProvider, canElevate, canMakePublic, tunnels,
                   maps, recs, calls, lastCall, removals>>

\* dispose() resumes after its await.
DisposeServiceResume ==
    /\ svc.pc = "loop"
    /\ LET n == disposeLoop(Store, svc)
       IN  SetStore(n.store) /\ svc' = n.svc
    /\ UNCHANGED <<termVars, testVars, registrations, isWindows, observing, tunnelProvider, canElevate, canMakePublic, calls, lastCall>>

\* ============================================ MainThreadTerminalService
\* The numeric ids the terminal service hands out.
InstanceIds == 1..MaxTerminals

\* The data chunks a terminal emits.
Chunks == {"a", "b"}

\* The terminal ids a message of the extension host may name.
ProcessIds == 1..(MaxTerminals + 1)

\* The emit methods of a process proxy that the $sendProcess* requests call
\* and leave the proxy registered.
ProcessEmits ==
    {"emitTitle", "emitData", "emitReady", "emitOverrideDimensions", "emitInitialCwd", "emitCwd"}

\* Extension identifiers, environment variables and the mutators of a
\* collection (a value with a type: 1 replace, 2 append).
ExtensionIds == {"ext.a", "ext.b"}
EnvVariables == {"PATH", "HOME"}
Mutators == {[value |-> "x", type |-> 1], [value |-> "y", type |-> 2]}

\* ISerializableEnvironmentVariableCollection | undefined: the entries of a
\* collection as an array of <<variable, mutator>> pairs, each variable once,
\* or no collection.
NoCollection == [defined |-> FALSE, pairs |-> << >>]
Serialized(pairs) == [defined |-> TRUE, pairs |-> pairs]
SerializableCollections ==
    {Serialized(<< >>)}
    \cup {Serialized(<<<<v, m>>>>) : v \in EnvVariables, m \in Mutators}
    \cup {Serialized(<<<<"PATH", m1>>, <<"HOME", m2>>>>) : m1 \in Mutators, m2 \in Mutators}

\* What the environment variable service holds for an extension.
NotHeld == [held |-> FALSE, persistent |-> FALSE, map |-> << >>]
Held(persistent, map) == [held |-> TRUE, persistent |-> persistent, map |-> map]

\* Temporary terminal ids of the extension host, and one it never used.
ExtHostIds == {"uuid-1", "uuid-2"}
StringIds == ExtHostIds \cup {"uuid-x"}

\* TerminalIdentifier: a number or a string.
NumberId(n) == [kind |-> "number", n |-> n, s |-> ""]
StringId(str) == [kind |-> "string", n |-> 0, s |-> str]
TerminalIdentifiers ==
    {NumberId(n) : n \in 1..(MaxTerminals + 1)} \cup {StringId(str) : str \in StringIds}

\* The part of the state the terminal requests read and write.
Term == [instances |-> instances, activeInstance |-> activeInstance, panel |-> panel,
         extHostTerminalIds |-> extHostTerminalIds, sent |-> sent,
         dataEventTracker |-> dataEventTracker, buffers |-> buffers, emitted |-> emitted,
         capturing |-> capturing, session |-> session,
         remoteAuthority |-> remoteAuthority, processProxies |-> processProxies,
         proxyEvents |-> proxyEvents, probes |-> probes, errors |-> errors,
         collections |-> collections, envCalls |-> envCalls,
         requests |-> requests, linkProvider |-> linkProvider,
         linkProviders |-> linkProviders, isDisposed |-> isDisposed,
         connection |-> connection]

SetTerm(T) ==
    /\ instances' = T.instances
    /\ activeInstance' = T.activeInstance
    /\ panel' = T.panel
    /\ extHostTerminalIds' = T.extHostTerminalIds
    /\ sent' = T.sent
    /\ dataEventTracker' = T.dataEventTracker
    /\ buffers' = T.buffers
    /\ emitted' = T.emitted
    /\ capturing' = T.capturing
    /\ session' = T.session
    /\ remoteAuthority' = T.remoteAuthority
    /\ processProxies' = T.processProxies
    /\ proxyEvents' = T.proxyEvents
    /\ probes' = T.probes
    /\ errors' = T.errors
    /\ collections' = T.collections
    /\ envCalls' = T.envCalls
    /\ requests' = T.requests
    /\ linkProvider' = T.linkProvider
    /\ linkProviders' = T.linkProviders
    /\ isDisposed' = T.isDisposed
    /\ connection' = T.connection

\* A call on the extension host proxy.
Send(T, method, id, arg) ==
    [T EXCEPT !.sent = Append(@, [method |-> method, id |-> id, arg |-> arg])]

\* The strings of a sequence joined: data.join('').
RECURSIVE Join(_)
Join(chunks) == IF chunks = << >> THEN "" ELSE Head(chunks) \o Join(Tail(chunks))

\* _onTerminalData(terminalId, data).
onTerminalData(T, n, data) == Send(T, "$acceptTerminalProcessData", n, data)

\* TerminalDataBufferer._flushBuffer(id): the buffered chunks of the instance
\* leave as one string through the tracker's callback.
flushBuffer(T, n) ==
    IF T.buffers[n] = << >> THEN T
    ELSE onTerminalData([T EXCEPT !.buffers[n] = << >>], n, Join(T.buffers[n]))

\* TerminalDataBufferer.stopBuffering(id), the tracker's onInstanceDisposed listener.
stopBuffering(T, n) == IF T.dataEventTracker THEN flushBuffer(T, n) ELSE T

\* Variant: the dimensions of a new instance are sent before it is announced.
onInstanceCreated_DimensionsFirst(T, n) ==
    Send(Send(T, "$acceptTerminalDimensions", n, ""),
         "$acceptTerminalOpened", n, T.instances[n].extHostTerminalId)

\* A listener the constructor added to _toDispose runs until dispose().
Listening(T, T1) == IF T.isDisposed THEN T ELSE T1

\* The listeners the constructor registers on the terminal service.
onInstanceCreated(T, n) ==
    Listening(T, Send(Send(T, "$acceptTerminalOpened", n, T.instances[n].extHostTerminalId),
                      "$acceptTerminalDimensions", n, ""))

\* onInstanceDisposed: the constructor's listener, then the tracker's.
onInstanceDisposed(T, n) ==
    stopBuffering(Listening(T, Send(T, "$acceptTerminalClosed", n, "")), n)

\* onInstanceTitleChanged listener: _onTitleChanged.
onInstanceTitleChanged(T, n) == Listening(T, Send(T, "$acceptTerminalTitleChange", n, ""))

onActiveInstanceChanged(T) ==
    Listening(T, Send(T, "$acceptActiveTerminalChanged", T.activeInstance, ""))

\* ----------------------------------------------- the terminal service
LiveInstances(T) == {n \in 1..Len(T.instances) : ~T.instances[n].disposed}

\* ITerminalService.getInstanceFromId: the instance, 0 for undefined.
getInstanceFromId(T, n) == IF n \in LiveInstances(T) THEN n ELSE 0

\* ITerminalService.createTerminal(shellLaunchConfig): a new instance with the
\* next numeric id; the first instance becomes the active one.
tsCreateTerminal(T, extHostTerminalId) ==
    LET n == Len(T.instances) + 1
        T1 == [T EXCEPT !.instances = Append(@,
                  [extHostTerminalId |-> extHostTerminalId, disposed |-> FALSE, input |-> << >>])]
        T2 == onInstanceCreated(T1, n)
    IN  IF LiveInstances(T) = {}
        THEN onActiveInstanceChanged([T2 EXCEPT !.activeInstance = n])
        ELSE T2

\* ITerminalService.setActiveInstance(instance).
tsSetActiveInstance(T, n) ==
    IF T.activeInstance = n THEN T
    ELSE onActiveInstanceChanged([T EXCEPT !.activeInstance = n])

\* ITerminalInstance.dispose(): the instance leaves the terminal service; when
\* it was the active one, another instance (or none) becomes active.
tsDisposeInstance(T, n) ==
    LET T1 == onInstanceDisposed([T EXCEPT !.instances[n].disposed = TRUE], n)
        rest == LiveInstances(T1)
    IN  IF T.activeInstance = n
        THEN onActiveInstanceChanged(
                 [T1 EXCEPT !.activeInstance = IF rest = {} THEN 0 ELSE Min(rest)])
        ELSE T1

\* ITerminalInstance.sendText(text, addNewLine).
tsSendText(T, n, text, addNewLine) ==
    [T EXCEPT !.instances[n].input = Append(@, <<text, addNewLine>>)]

\* ITerminalInstance.initialDataEvents: the chunks the instance has emitted
\* while it records them, undefined (Undef) afterwards.
initialDataEvents(T, n) == IF T.capturing[n] THEN T.emitted[n] ELSE Undef

\* Variant: without a tracker the chunk is sent at once.
emitData_ForwardsWithoutTracker(T, n, data) ==
    LET T1 == [T EXCEPT !.emitted[n] = Append(@, data)]
    IN  IF T.dataEventTracker
        THEN [T1 EXCEPT !.buffers[n] = Append(@, data)]
        ELSE onTerminalData(T1, n, data)

\* ITerminalInstance.onData fires: with a tracker the bufferer keeps the chunk
\* (a first chunk opens the buffer and sets its flush timer).
emitData(T, n, data) ==
    LET T1 == [T EXCEPT !.emitted[n] = Append(@, data)]
    IN  IF T.dataEventTracker
        THEN [T1 EXCEPT !.buffers[n] = Append(@, data)]
        ELSE T1

\* ----------------------------------------------- data events
\* t.initialDataEvents?.forEach(d => this._onTerminalData(t.id, d)).
RECURSIVE sendEach(_, _, _)
sendEach(T, n, events) ==
    IF events = << >> THEN T
    ELSE sendEach(onTerminalData(T, n, Head(events)), n, Tail(events))

\* terminalInstances.forEach over the instances from id n on.
RECURSIVE sendInitialEvents(_, _)
sendInitialEvents(T, n) ==
    IF n > Len(T.instances) THEN T
    ELSE IF n \in LiveInstances(T) /\ initialDataEvents(T, n) # Undef
    THEN sendInitialEvents(sendEach(T, n, initialDataEvents(T, n)), n + 1)
    ELSE sendInitialEvents(T, n + 1)

\* Where a $startSendingDataEvents began: the length of `sent`, the chunks
\* each instance had emitted and the initial events replayed for it.
NewSession(T) ==
    [ sentAtStart |-> Len(T.sent),
      emittedAtStart |-> [n \in InstanceIds |-> Len(T.emitted[n])],
      replayed |-> [n \in InstanceIds |->
                      IF n \in LiveInstances(T) /\ initialDataEvents(T, n) # Undef
                      THEN initialDataEvents(T, n) ELSE << >>] ]

\* Variant: a tracker is created, and the initial events sent, on every call.
startSendingDataEvents_EveryCall(T) ==
    sendInitialEvents([T EXCEPT !.dataEventTracker = TRUE,
                                !.session = IF T.dataEventTracker THEN @ ELSE NewSession(T)], 1)

\* $startSendingDataEvents().
startSendingDataEvents(T) ==
    IF ~T.dataEventTracker
    THEN sendInitialEvents([T EXCEPT !.dataEventTracker = TRUE, !.session = NewSession(T)], 1)
    ELSE T

\* TerminalDataBufferer.dispose(): every buffer is flushed.
RECURSIVE flushAll(_, _)
flushAll(T, n) ==
    IF n > MaxTerminals THEN T ELSE flushAll(flushBuffer(T, n), n + 1)

\* $stopSendingDataEvents().
stopSendingDataEvents(T) ==
    IF T.dataEventTracker
    THEN [flushAll(T, 1) EXCEPT !.dataEventTracker = FALSE]
    ELSE T

\* ----------------------------------------------- process proxies
\* An emit method called on the process proxy of terminal id.
Emit(T, id, emit) == [T EXCEPT !.proxyEvents[id] = Append(@, emit)]

\* _logService.error.
LogError(T, id) == [T EXCEPT !.errors = Append(@, [error |-> "Unknown terminal", id |-> id])]

\* A request of the terminal service: its kind, the terminal of its proxy,
\* whether the bridge listens to the proxy's events, the promise of the call
\* it led to ("none": no call) and how often its callback was invoked.
Request(kind, id, listeners, promise) ==
    [kind |-> kind, terminalId |-> id, listeners |-> listeners, promise |-> promise,
     callbacks |-> 0]

\* A request the bridge leaves unanswered.
Unheard(T, kind, id) ==
    [T EXCEPT !.requests = Append(@, Request(kind, id, FALSE, "none"))]

\* _onRequestSpawnExtHostProcess(request) for the proxy of terminal id.
onRequestSpawnExtHostProcess(T, id) ==
    IF T.isDisposed \/ T.remoteAuthority = Null THEN Unheard(T, "spawn", id)
    ELSE Send([T EXCEPT !.processProxies[id] = TRUE,
                        !.requests = Append(@, Request("spawn", id, TRUE, "pending"))],
              "$spawnExtHostProcess", id, "")

\* _onRequestStartExtensionTerminal(request) for the proxy of terminal id.
onRequestStartExtensionTerminal(T, id) ==
    IF T.isDisposed THEN Unheard(T, "start", id)
    ELSE Send([T EXCEPT !.processProxies[id] = TRUE,
                        !.requests = Append(@, Request("start", id, TRUE, "pending"))],
              "$startExtensionTerminal", id, "")

\* Variant: every callback is invoked only when the call is fulfilled.
settleRequest_FulfilledOnly(T, k, outcome) ==
    [T EXCEPT !.requests[k].promise = outcome,
              !.requests[k].callbacks = IF outcome = "fulfilled" THEN @ + 1 ELSE @]

\* The request's promise settles: $spawnExtHostProcess(...).then(callback,
\* callback) invokes the callback either way; $startExtensionTerminal(...)
\* .then(callback) and the awaits of the shell requests only when fulfilled.
settleRequest(T, k, outcome) ==
    [T EXCEPT !.requests[k].promise = outcome,
              !.requests[k].callbacks =
                  IF T.requests[k].kind = "spawn" \/ outcome = "fulfilled" THEN @ + 1 ELSE @]

\* proxy.onInput fires: the listener the request handler attached forwards it.
onInput(T, k) ==
    IF T.requests[k].listeners
    THEN Send(T, "$acceptProcessInput", T.requests[k].terminalId, "")
    ELSE T

\* _isPrimaryExtHost().
isPrimaryExtHost(T) ==
    IF T.connection # Null THEN T.remoteAuthority = T.connection ELSE TRUE

\* Variant: every bridge answers.
onRequestShells_EveryBridge(T, kind, method) ==
    IF T.isDisposed THEN Unheard(T, kind, 0)
    ELSE Send([T EXCEPT !.requests = Append(@, Request(kind, 0, FALSE, "pending"))],
              method, 0, "")

\* _onRequestAvailableShells(req) and _onRequestDefaultShellAndArgs(req) up
\* to their await: the kind of the request and the method called.
onRequestShells(T, kind, method) ==
    IF T.isDisposed \/ ~isPrimaryExtHost(T) THEN Unheard(T, kind, 0)
    ELSE Send([T EXCEPT !.requests = Append(@, Request(kind, 0, FALSE, "pending"))],
              method, 0, "")

onRequestAvailableShells(T) == onRequestShells(T, "availableShells", "$getAvailableShells")

onRequestDefaultShellAndArgs(T) ==
    onRequestShells(T, "defaultShellAndArgs", "$getDefaultShellAndArgs")

\* ----------------------------------------------- link provider and dispose()
\* this._linkProvider?.dispose(): the registration is withdrawn.
disposeLinkProvider(T) ==
    IF T.linkProvider = 0 THEN T ELSE [T EXCEPT !.linkProviders[T.linkProvider] = FALSE]

\* Variant: the previous registration is left registered.
startLinkProvider_KeepsPrevious(T) ==
    [T EXCEPT !.linkProviders = Append(@, TRUE), !.linkProvider = Len(T.linkProviders) + 1]

\* $startLinkProvider().
startLinkProvider(T) ==
    LET T1 == disposeLinkProvider(T)
    IN  [T1 EXCEPT !.linkProviders = Append(@, TRUE), !.linkProvider = Len(T.linkProviders) + 1]

\* $stopLinkProvider().
stopLinkProvider(T) == [disposeLinkProvider(T) EXCEPT !.linkProvider = 0]

\* MainThreadTerminalService.dispose(): _toDispose and the link provider.
disposeBridge(T) == [disposeLinkProvider(T) EXCEPT !.isDisposed = TRUE]

\* A variant that looks the proxy up with _getTerminalProcess.
sendProcessEvent_Logs(T, id, emit) ==
    IF T.processProxies[id] THEN Emit(T, id, emit) ELSE LogError(T, id)

\* $sendProcessTitle, $sendProcessData, $sendProcessReady, $sendOverrideDimensions,
\* $sendProcessInitialCwd, $sendProcessCwd: the emit method each calls.
sendProcessEvent(T, id, emit) ==
    IF T.processProxies[id] THEN Emit(T, id, emit) ELSE T

\* Variant: the proxy stays registered after its exit.
sendProcessExit_KeepsProxy(T, id) ==
    IF T.processProxies[id] THEN Emit(T, id, "emitExit") ELSE T

\* $sendProcessExit(terminalId, exitCode).
sendProcessExit(T, id) ==
    IF T.processProxies[id]
    THEN [Emit(T, id, "emitExit") EXCEPT !.processProxies[id] = FALSE]
    ELSE T

\* _getTerminalProcess(terminalId)?.emit...: logs when there is no proxy.
emitOnTerminalProcess(T, id, emit) ==
    IF T.processProxies[id] THEN Emit(T, id, emit) ELSE LogError(T, id)

\* $sendResolvedLaunchConfig(terminalId, shellLaunchConfig).
sendResolvedLaunchConfig(T, id) ==
    IF getInstanceFromId(T, id) # 0
    THEN emitOnTerminalProcess(T, id, "emitResolvedShellLaunchConfig")
    ELSE T

\* _onRequestLatency(terminalId) up to its first await.
onRequestLatency(T, id) ==
    Send([T EXCEPT !.probes = Append(@, [terminalId |-> id, done |-> 0, outcome |-> "none"])],
         "$acceptProcessRequestLatency", id, "")

\* A variant of the resumption that issues the remaining round trips at once.
latencyResume_NoAwait(T, k) ==
    LET id == T.probes[k].terminalId
        T1 == [T EXCEPT !.probes[k].done = LatencyCount]
        T2 == IF T.probes[k].done + 1 < LatencyCount
              THEN Send(T1, "$acceptProcessRequestLatency", id, "")
              ELSE T1
    IN  [emitOnTerminalProcess(T2, id, "emitLatency")
            EXCEPT !.probes[k].outcome = IF T.processProxies[id] THEN "emitted" ELSE "logged"]

\* _onRequestLatency after an await: the next round trip, or after the last
\* one the latency goes to the terminal's process proxy.
latencyResume(T, k) ==
    LET id == T.probes[k].terminalId
        done == T.probes[k].done + 1
        T1 == [T EXCEPT !.probes[k].done = done]
    IN  IF done < LatencyCount
        THEN Send(T1, "$acceptProcessRequestLatency", id, "")
        ELSE [emitOnTerminalProcess(T1, id, "emitLatency")
                 EXCEPT !.probes[k].outcome = IF T.processProxies[id] THEN "emitted" ELSE "logged"]

\* ----------------------------------------------- environment variables
\* deserializeEnvironmentVariableCollection: new Map(serializedCollection),
\* where a later pair of a variable replaces an earlier one.
deserializeEnvironmentVariableCollection(pairs) ==
    [v \in {pairs[i][1] : i \in 1..Len(pairs)} |->
        LET last == CHOOSE i \in 1..Len(pairs) :
                        /\ pairs[i][1] = v
                        /\ \A j \in (i + 1)..Len(pairs) : pairs[j][1] # v
        IN  pairs[last][2]]

\* IEnvironmentVariableService.set and delete.
envSet(T, extensionIdentifier, collection) ==
    [T EXCEPT !.collections[extensionIdentifier] = collection]

envDelete(T, extensionIdentifier) ==
    [T EXCEPT !.collections[extensionIdentifier] = NotHeld]

\* The call as the service receives it.
EnvCall(extensionIdentifier, persistent, collection) ==
    [extensionIdentifier |-> extensionIdentifier, persistent |-> persistent,
     collection |-> collection]

\* A variant that treats an empty collection as none.
setEnvironmentVariableCollection_EmptyDeletes(T, extensionIdentifier, persistent, collection) ==
    LET T1 == [T EXCEPT !.envCalls =
                   Append(@, EnvCall(extensionIdentifier, persistent, collection))]
    IN  IF collection.defined /\ collection.pairs # << >>
        THEN envSet(T1, extensionIdentifier,
                    Held(persistent, deserializeEnvironmentVariableCollection(collection.pairs)))
        ELSE envDelete(T1, extensionIdentifier)

\* $setEnvironmentVariableCollection(extensionIdentifier, persistent, collection).
setEnvironmentVariableCollection(T, extensionIdentifier, persistent, collection) ==
    LET T1 == [T EXCEPT !.envCalls =
                   Append(@, EnvCall(extensionIdentifier, persistent, collection))]
    IN  IF collection.defined
        THEN envSet(T1, extensionIdentifier,
                    Held(persistent, deserializeEnvironmentVariableCollection(collection.pairs)))
        ELSE envDelete(T1, extensionIdentifier)

\* ----------------------------------------------- the requests
\* _getTerminalId(id): 0 for undefined.
getTerminalId(T, id) ==
    IF id.kind = "number" THEN id.n ELSE T.extHostTerminalIds[id.s]

\* Variant: an identifier that resolves to no number names the active instance.
getTerminalInstance_ActiveFallback(T, id) ==
    LET rendererId == getTerminalId(T, id)
    IN  IF rendererId # 0 THEN getInstanceFromId(T, rendererId) ELSE T.activeInstance

\* _getTerminalInstance(id): 0 for undefined.
getTerminalInstance(T, id) ==
    LET rendererId == getTerminalId(T, id)
    IN  IF rendererId # 0 THEN getInstanceFromId(T, rendererId) ELSE 0

\* Variant: the table receives the id of the active instance.
createTerminal_StoresActive(T, extHostTerminalId) ==
    LET T1 == tsCreateTerminal(T, extHostTerminalId)
    IN  [T1 EXCEPT !.extHostTerminalIds[extHostTerminalId] = T1.activeInstance]

\* $createTerminal(extHostTerminalId, launchConfig).
createTerminal(T, extHostTerminalId) ==
    LET T1 == tsCreateTerminal(T, extHostTerminalId)
        terminal == Len(T1.instances)
    IN  [T1 EXCEPT !.extHostTerminalIds[extHostTerminalId] = terminal]

\* $show(id, preserveFocus).
show(T, id, preserveFocus) ==
    LET terminalInstance == getTerminalInstance(T, id)
    IN  IF terminalInstance # 0
        THEN [tsSetActiveInstance(T, terminalInstance)
                 EXCEPT !.panel = [visible |-> TRUE, focus |-> ~preserveFocus]]
        ELSE T

\* $hide(id).
hide(T, id) ==
    LET rendererId == getTerminalId(T, id)
        instance == T.activeInstance
    IN  IF instance # 0 /\ instance = rendererId
        THEN [T EXCEPT !.panel = [visible |-> FALSE, focus |-> FALSE]]
        ELSE T

\* $dispose(id).
dispose(T, id) ==
    LET terminalInstance == getTerminalInstance(T, id)
    IN  IF terminalInstance # 0 THEN tsDisposeInstance(T, terminalInstance) ELSE T

\* $sendText(id, text, addNewLine).
sendText(T, id, text, addNewLine) ==
    LET terminalInstance == getTerminalInstance(T, id)
    IN  IF terminalInstance # 0
        THEN tsSendText(T, terminalInstance, text, addNewLine)
        ELSE T

\* ----------------------------------------------- MainThreadTesting
\* ExtHostTestingResource, the URI components the extension host sends and
\* the diffs of the test service.
TestingResources == {"Workspace", "TextDocument"}
UriComponentsSet == [scheme : {"file"}, path : {"/a", "/b"}]
TestsDiffs == {"diff1", "diff2"}

\* URI.revive(uriComponents).toString().
uriToString(uri) == uri.scheme \o "://" \o uri.path

\* getTestSubscriptionKey(resource, uri).
getTestSubscriptionKey(resource, uri) == resource \o ":" \o uriToString(uri)

SubscriptionKeys ==
    {getTestSubscriptionKey(r, u) : r \in TestingResources, u \in UriComponentsSet}

\* The part of the state the testing requests read and write.
Testing == [testSubscriptions |-> testSubscriptions, subscriptions |-> subscriptions,
            acceptedDiffs |-> acceptedDiffs, rootProviderCount |-> rootProviderCount]

SetTesting(G) ==
    /\ testSubscriptions' = G.testSubscriptions
    /\ subscriptions' = G.subscriptions
    /\ acceptedDiffs' = G.acceptedDiffs
    /\ rootProviderCount' = G.rootProviderCount

\* The bridge as constructed: updateRootProviderCount(1), no subscription.
TestingInit ==
    /\ testSubscriptions = [key \in SubscriptionKeys |-> 0]
    /\ subscriptions = << >>
    /\ acceptedDiffs = << >>
    /\ rootProviderCount = 1

\* IDisposable.dispose() of subscription k: its listener is removed.
disposeSubscription(G, k) ==
    IF k = 0 THEN G ELSE [G EXCEPT !.subscriptions[k].disposed = TRUE]

\* $subscribeToDiffs(resource, uriComponents): testService.subscribeToDiffs
\* returns a new disposable, which is stored under the key.
subscribeToDiffs(G, resource, uriComponents) ==
    LET disposable == Len(G.subscriptions) + 1
    IN  [G EXCEPT !.subscriptions = Append(@, [resource |-> resource, uri |-> uriComponents,
                                               disposed |-> FALSE]),
                  !.testSubscriptions[getTestSubscriptionKey(resource, uriComponents)] =
                      disposable]

\* $unsubscribeFromDiffs(resource, uriComponents).
unsubscribeFromDiffs(G, resource, uriComponents) ==
    LET key == getTestSubscriptionKey(resource, uriComponents)
    IN  [disposeSubscription(G, G.testSubscriptions[key]) EXCEPT !.testSubscriptions[key] = 0]

\* The callback given to subscribeToDiffs by subscription k:
\* diff => this.proxy.$acceptDiff(resource, uriComponents, diff).
acceptDiff(G, k, diff) ==
    [G EXCEPT !.acceptedDiffs = Append(@, [resource |-> G.subscriptions[k].resource,
                                           uri |-> G.subscriptions[k].uri, diff |-> diff])]

\* The test service has a diff for (resource, uri): every listener subscribed
\* to it and not disposed is called, from subscription k on.
RECURSIVE deliverDiff(_, _, _, _, _)
deliverDiff(G, resource, uri, diff, k) ==
    IF k > Len(G.subscriptions) THEN G
    ELSE IF /\ ~G.subscriptions[k].disposed
            /\ G.subscriptions[k].resource = resource
            /\ uriToString(G.subscriptions[k].uri) = uriToString(uri)
    THEN deliverDiff(acceptDiff(G, k, diff), resource, uri, diff, k + 1)
    ELSE deliverDiff(G, resource, uri, diff, k + 1)

\* for (const subscription of this.testSubscriptions.values()) subscription.dispose().
disposeStored(G) ==
    [G EXCEPT !.subscriptions =
        [k \in 1..Len(G.subscriptions) |->
            IF \E key \in SubscriptionKeys : G.testSubscriptions[key] = k
            THEN [G.subscriptions[k] EXCEPT !.disposed = TRUE]
            ELSE G.subscriptions[k]]]

\* MainThreadTesting.dispose().
disposeTesting(G) ==
    [disposeStored(G) EXCEPT !.rootProviderCount = @ - 1,
                             !.testSubscriptions = [key \in SubscriptionKeys |-> 0]]

\* ----------------------------------------------- initial state and actions
\* The bridge as constructed over a terminal service that holds no instance,
\* or one instance of the user, which the constructor announces.
\* No data event tracker, and nothing emitted by any instance.
DataInit ==
    /\ dataEventTracker = FALSE
    /\ buffers = [n \in InstanceIds |-> << >>]
    /\ emitted = [n \in InstanceIds |-> << >>]
    /\ capturing = [n \in InstanceIds |-> TRUE]
    /\ session = [sentAtStart |-> 0, emittedAtStart |-> [n \in InstanceIds |-> 0],
                  replayed |-> [n \in InstanceIds |-> << >>]]

\* No process proxy registered, no latency request, nothing logged.
EnvInit ==
    /\ collections = [e \in ExtensionIds |-> NotHeld]
    /\ envCalls = << >>

\* No request fired, no link provider, not disposed.
BridgeInit ==
    /\ requests = << >>
    /\ linkProvider = 0
    /\ linkProviders = << >>
    /\ isDisposed = FALSE

ProcessInit ==
    /\ processProxies = [id \in ProcessIds |-> FALSE]
    /\ proxyEvents = [id \in ProcessIds |-> << >>]
    /\ probes = << >>
    /\ errors = << >>

TermInit ==
    /\ DataInit
    /\ ProcessInit
    /\ EnvInit
    /\ BridgeInit
    /\ TestingInit
    /\ panel = [visible |-> FALSE, focus |-> FALSE]
    /\ extHostTerminalIds = [str \in StringIds |-> 0]
    /\ \/ /\ instances = << >>
          /\ activeInstance = 0
          /\ sent = << >>
       \/ /\ instances = << [extHostTerminalId |-> Undef, disposed |-> FALSE, input |-> << >>] >>
          /\ activeInstance = 1
          /\ sent = << [method |-> "$acceptTerminalOpened", id |-> 1, arg |-> Undef],
                       [method |-> "$acceptActiveTerminalChanged", id |-> 1, arg |-> ""] >>

\* The bridge as constructed over a terminal service that holds the user's
\* terminals 1..k, the first of them active: the constructor announces each
\* instance and then the active one.
TermInitOver(k) ==
    /\ DataInit
    /\ ProcessInit
    /\ EnvInit
    /\ BridgeInit
    /\ TestingInit
    /\ panel = [visible |-> FALSE, focus |-> FALSE]
    /\ extHostTerminalIds = [str \in StringIds |-> 0]
    /\ instances = [n \in 1..k |-> [extHostTerminalId |-> Undef, disposed |-> FALSE,
                                      input |-> << >>]]
    /\ activeInstance = 1
    /\ sent = [n \in 1..k |-> [method |-> "$acceptTerminalOpened", id |-> n, arg |-> Undef]]
                  \o << [method |-> "$acceptActiveTerminalChanged", id |-> 1, arg |-> ""] >>

\* The lengths of the sequences f holds for the ids 1..n, added up.
RECURSIVE TotalLen(_, _)
TotalLen(f, n) == IF n = 0 THEN 0 ELSE Len(f[n]) + TotalLen(f, n - 1)

\* Within the bounds of the exploration.
TermBounded(T) ==
    /\ Len(T.instances) <= MaxTerminals
    /\ Len(T.sent) <= MaxSent
    /\ \A n \in 1..Len(T.instances) : Len(T.instances[n].input) <= MaxTexts
    /\ TotalLen(T.emitted, MaxTerminals) <= MaxChunks
    /\ TotalLen(T.proxyEvents, MaxTerminals + 1) <= MaxEmits
    /\ Len(T.probes) <= MaxProbes
    /\ Len(T.errors) <= MaxErrors
    /\ Len(T.envCalls) <= MaxEnvCalls
    /\ Len(T.requests) <= MaxRequests
    /\ Len(T.linkProviders) <= MaxLinkProviders

TermStep(T) ==
    /\ TermBounded(T)
    /\ SetTerm(T)
    /\ UNCHANGED <<tunnelVars, testVars>>

\* The extension host creates a terminal under a fresh temporary id.
CreateTerminal(extHostTerminalId) ==
    /\ extHostTerminalIds[extHostTerminalId] = 0
    /\ TermStep(createTerminal(Term, extHostTerminalId))

\* The user creates a terminal in the workbench.
UserCreateTerminal ==
    /\ Len(instances) < MaxTerminals
    /\ TermStep(tsCreateTerminal(Term, Undef))

\* The user closes a terminal in the workbench.
UserDisposeTerminal(n) ==
    /\ n \in LiveInstances(Term)
    /\ TermStep(tsDisposeInstance(Term, n))

Show(id, preserveFocus) ==
    /\ id \in TerminalIdentifiers
    /\ TermStep(show(Term, id, preserveFocus))

Hide(id) ==
    /\ id \in TerminalIdentifiers
    /\ TermStep(hide(Term, id))

Dispose(id) ==
    /\ id \in TerminalIdentifiers
    /\ TermStep(dispose(Term, id))

SendText(id, text, addNewLine) ==
    /\ id \in TerminalIdentifiers
    /\ TermStep(sendText(Term, id, text, addNewLine))

\* The extension host subscribes to terminal data.
StartSendingDataEvents ==
    /\ dataEventTracker \in BOOLEAN
    /\ TermStep(startSendingDataEvents(Term))

\* The extension host unsubscribes from terminal data.
StopSendingDataEvents ==
    /\ dataEventTracker \in BOOLEAN
    /\ TermStep(stopSendingDataEvents(Term))

\* A terminal writes a chunk of data.
EmitData(n, data) ==
    /\ n \in LiveInstances(Term)
    /\ TermStep(emitData(Term, n, data))

\* The flush timer of an instance's buffer fires.
FlushBuffer(n) ==
    /\ dataEventTracker /\ buffers[n] # << >>
    /\ TermStep(flushBuffer(Term, n))

\* An instance stops recording its initial data events.
EndInitialCapture(n) ==
    /\ n \in LiveInstances(Term) /\ capturing[n]
    /\ TermStep([Term EXCEPT !.capturing[n] = FALSE])

\* The title of a terminal changes.
TitleChanged(n) ==
    /\ n \in LiveInstances(Term)
    /\ TermStep(onInstanceTitleChanged(Term, n))

\* A terminal asks for its process to be spawned on the extension host.
RequestSpawnExtHostProcess(n) ==
    /\ n \in LiveInstances(Term)
    /\ TermStep(onRequestSpawnExtHostProcess(Term, n))

\* An extension terminal asks to be started.
RequestStartExtensionTerminal(n) ==
    /\ n \in LiveInstances(Term)
    /\ TermStep(onRequestStartExtensionTerminal(Term, n))

SendProcessEvent(id, emit) ==
    /\ id \in ProcessIds
    /\ TermStep(sendProcessEvent(Term, id, emit))

SendProcessExit(id) ==
    /\ id \in ProcessIds
    /\ TermStep(sendProcessExit(Term, id))

SendResolvedLaunchConfig(id) ==
    /\ id \in ProcessIds
    /\ TermStep(sendResolvedLaunchConfig(Term, id))

SetEnvironmentVariableCollection(extensionIdentifier, persistent, collection) ==
    /\ extensionIdentifier \in ExtensionIds
    /\ TermStep(setEnvironmentVariableCollection(Term, extensionIdentifier, persistent, collection))

\* A registered process proxy fires onRequestLatency.
RequestLatency(id) ==
    /\ processProxies[id]
    /\ TermStep(onRequestLatency(Term, id))

\* The extension host answers the round trip a latency request waits for.
LatencyReply(k) ==
    /\ k \in 1..Len(probes) /\ probes[k].done < LatencyCount
    /\ TermStep(latencyResume(Term, k))

\* The extension host answers, or fails, the call a request waits for.
SettleRequest(k, outcome) ==
    /\ k \in 1..Len(requests) /\ requests[k].promise = "pending"
    /\ TermStep(settleRequest(Term, k, outcome))

\* The process proxy of a request receives input from its terminal.
ProxyInput(k) ==
    /\ k \in 1..Len(requests) /\ requests[k].kind \in {"spawn", "start"}
    /\ TermStep(onInput(Term, k))

\* The terminal service asks for the available shells.
RequestAvailableShells ==
    /\ Len(requests) < MaxRequests
    /\ TermStep(onRequestAvailableShells(Term))

\* The terminal instance service asks for the default shell and arguments.
RequestDefaultShellAndArgs ==
    /\ Len(requests) < MaxRequests
    /\ TermStep(onRequestDefaultShellAndArgs(Term))

StartLinkProvider ==
    /\ Len(linkProviders) < MaxLinkProviders
    /\ TermStep(startLinkProvider(Term))

StopLinkProvider ==
    /\ linkProvider \in 0..MaxLinkProviders
    /\ TermStep(stopLinkProvider(Term))

\* The extension host goes away: the bridge is disposed.
DisposeBridge ==
    /\ ~isDisposed
    /\ TermStep(disposeBridge(Term))

\* Within the bounds of the exploration.
TestingStep(G) ==
    /\ Len(G.subscriptions) <= MaxSubscriptions
    /\ Len(G.acceptedDiffs) <= MaxDiffs
    /\ SetTesting(G)
    /\ UNCHANGED <<tunnelVars, termVars>>

SubscribeToDiffs(resource, uriComponents) ==
    /\ resource \in TestingResources
    /\ TestingStep(subscribeToDiffs(Testing, resource, uriComponents))

UnsubscribeFromDiffs(resource, uriComponents) ==
    /\ resource \in TestingResources
    /\ TestingStep(unsubscribeFromDiffs(Testing, resource, uriComponents))

\* The test service publishes a diff for (resource, uri).
DeliverDiff(resource, uri, diff) ==
    /\ resource \in TestingResources
    /\ TestingStep(deliverDiff(Testing, resource, uri, diff, 1))

\* The extension host goes away: the testing bridge is disposed.
DisposeTesting ==
    /\ rootProviderCount = 1
    /\ TestingStep(disposeTesting(Testing))

\* ------------------------------------------------------------ specifications
Providers == {Undef, "provider"}
Features == {[elevation |-> TRUE, public |-> FALSE]}
LocalPorts == {NoLocalPort, <<1023>>, <<1024>>}

\* The steps of the promises and callbacks of openTunnel, closeTunnel and the
\* handles.
AsyncStep ==
    \/ \E r \in 1..MaxCalls, v \in {"tunnel", "undefined"} : ResolveTunnel(r, v)
    \/ \E r \in 1..MaxCalls : OpenTunnelThen(r)
    \/ RemoveEmptyTunnelResume
    \/ \E r \in 1..MaxCalls : TryDisposeThen(r)
    \/ \E r \in 1..MaxCalls : TunnelDisposed(r)

\* The steps of dispose().
DisposeStep ==
    \/ DisposeService
    \/ \E r \in 1..MaxCalls : DisposeServiceThen(r)
    \/ DisposeServiceTunnelDisposed
    \/ DisposeServiceResume

\* The terminal bridge at rest beside the tunnel service.
TermIdle ==
    /\ DataInit
    /\ ProcessInit
    /\ EnvInit
    /\ BridgeInit
    /\ TestingInit
    /\ remoteAuthority = Null
    /\ connection = Null
    /\ panel = [visible |-> FALSE, focus |-> FALSE]
    /\ extHostTerminalIds = [str \in StringIds |-> 0]
    /\ instances = << >>
    /\ activeInstance = 0
    /\ sent = << >>

Init ==
    /\ isWindows = FALSE
    /\ observing = FALSE
    /\ TunnelInit
    /\ TermIdle

\* Spec: openTunnel, the handles, closeTunnel and the promises, for one port
\* under the two localhost aliases and one other host.
Next ==
    \/ \E p \in Providers, f \in Features : SetTunnelProvider(p, f)
    \/ \E ap \in BOOLEAN, h \in Hosts, ret \in {"promise", "none"} :
          OpenTunnel(ap, h, 80, NoLocalPort, FALSE, FALSE, ret)
    \/ \E c \in 1..MaxCalls : HandleDispose(c)
    \/ \E h \in Hosts : CloseTunnel(h, 80)
    \/ AsyncStep

Spec == Init /\ [][Next]_vars

\* SpecDispose: the same with dispose() of the service, for one localhost
\* alias and one other host.
DisposeHosts == {"localhost", "example.com"}

NextDispose ==
    \/ SetTunnelProvider("provider", CHOOSE f \in Features : TRUE)
    \/ \E h \in DisposeHosts : OpenTunnel(TRUE, h, 80, NoLocalPort, FALSE, FALSE, "promise")
    \/ \E c \in 1..MaxCalls : HandleDispose(c)
    \/ \E h \in DisposeHosts : CloseTunnel(h, 80)
    \/ AsyncStep
    \/ DisposeStep

SpecDispose == Init /\ [][NextDispose]_vars

\* SpecDisposeLate: dispose() of the service with openTunnel invocations that
\* run while dispose() awaits a tunnel.
InitDisposeLate ==
    /\ isWindows = FALSE
    /\ observing = FALSE
    /\ TunnelInitWith(MaxLateCalls)
    /\ TermIdle

LateCalls == 1..(MaxCalls + MaxLateCalls)

NextDisposeLate ==
    \/ SetTunnelProvider("provider", CHOOSE f \in Features : TRUE)
    \/ \E h \in DisposeHosts : OpenTunnel(TRUE, h, 80, NoLocalPort, FALSE, FALSE, "promise")
    \/ \E r \in LateCalls : ResolveTunnel(r, "tunnel")
    \/ \E r \in LateCalls : OpenTunnelThen(r)
    \/ \E h \in DisposeHosts : CloseTunnel(h, 80)
    \/ \E r \in LateCalls : TryDisposeThen(r)
    \/ \E r \in LateCalls : TunnelDisposed(r)
    \/ DisposeService
    \/ \E r \in LateCalls : DisposeServiceThen(r)
    \/ DisposeServiceTunnelDisposed
    \/ DisposeServiceResume

SpecDisposeLate == InitDisposeLate /\ [][NextDisposeLate]_vars

\* SpecCalls: what each openTunnel invocation returns, every invocation
\* recorded in lastCall.
InitCalls ==
    /\ isWindows = FALSE
    /\ observing = TRUE
    /\ TunnelInit
    /\ TermIdle

NextCalls ==
    \/ \E p \in Providers, f \in Features : SetTunnelProvider(p, f)
    \/ \E ap \in BOOLEAN, h \in {Undef, "example.com"}, ret \in {"promise", "none"} :
          OpenTunnel(ap, h, 80, NoLocalPort, FALSE, FALSE, ret)
    \/ \E r \in 1..MaxCalls, v \in {"tunnel", "undefined"} : ResolveTunnel(r, v)
    \/ \E r \in 1..MaxCalls : OpenTunnelThen(r)
    \/ RemoveEmptyTunnelResume
    \/ \E h \in {"localhost", "example.com"} : CloseTunnel(h, 80)
    \/ \E r \in 1..MaxCalls : TryDisposeThen(r)

SpecCalls == InitCalls /\ [][NextCalls]_vars

\* SpecElevation: the local port and elevation arguments of openTunnel, on
\* either platform, every invocation recorded in lastCall.
InitElevation ==
    /\ isWindows \in BOOLEAN
    /\ observing = TRUE
    /\ TunnelInit
    /\ TermIdle

NextElevation ==
    \/ SetTunnelProvider("provider", CHOOSE f \in Features : TRUE)
    \/ \E p \in Ports, lp \in LocalPorts, el \in BOOLEAN, ret \in {"promise", "none"} :
          OpenTunnel(TRUE, "example.com", p, lp, el, FALSE, ret)
    \/ \E p \in Ports : CloseTunnel("example.com", p)

SpecElevation == InitElevation /\ [][NextElevation]_vars

\* SpecTerminal: the requests of the extension host that address a terminal,
\* and the user creating and closing terminals.
InitTerminal ==
    /\ isWindows = FALSE
    /\ observing = FALSE
    /\ TunnelInit
    /\ TermInit
    /\ remoteAuthority = Null
    /\ connection = Null

NextTerminal ==
    \/ \E str \in ExtHostIds : CreateTerminal(str)
    \/ UserCreateTerminal
    \/ \E n \in 1..MaxTerminals : UserDisposeTerminal(n)
    \/ \E id \in TerminalIdentifiers, preserveFocus \in BOOLEAN : Show(id, preserveFocus)
    \/ \E id \in TerminalIdentifiers : Hide(id)
    \/ \E id \in TerminalIdentifiers : Dispose(id)
    \/ \E id \in TerminalIdentifiers, addNewLine \in BOOLEAN : SendText(id, "ls", addNewLine)

SpecTerminal == InitTerminal /\ [][NextTerminal]_vars

\* SpecData: terminals of the user that write data while the extension host
\* subscribes to and unsubscribes from data events.
InitData ==
    /\ isWindows = FALSE
    /\ observing = FALSE
    /\ TunnelInit
    /\ remoteAuthority = Null
    /\ connection = Null
    /\ \E k \in {1, 2} : TermInitOver(k)

NextData ==
    \/ \E n \in InstanceIds : UserDisposeTerminal(n)
    \/ StartSendingDataEvents
    \/ StopSendingDataEvents
    \/ \E n \in InstanceIds, data \in Chunks : EmitData(n, data)
    \/ \E n \in InstanceIds : FlushBuffer(n)
    \/ \E n \in InstanceIds : EndInitialCapture(n)
    \/ \E n \in InstanceIds : TitleChanged(n)

SpecData == InitData /\ [][NextData]_vars

\* SpecProvider: setTunnelProvider and the disposables it returns, for two
\* providers and every choice of features.
ProviderNames == {"provider", "provider2"}
FeatureSets == [elevation : BOOLEAN, public : BOOLEAN]

NextProvider ==
    \/ \E p \in ProviderNames \cup {Undef}, f \in FeatureSets : RegisterTunnelProvider(p, f)
    \/ \E i \in 1..MaxRegistrations : DisposeRegistration(i)

SpecProvider == Init /\ [][NextProvider]_vars

\* SpecEnv: the environment variable collections of the extensions.
InitEnv ==
    /\ isWindows = FALSE
    /\ observing = FALSE
    /\ TunnelInit
    /\ TermInitOver(1)
    /\ remoteAuthority = Null
    /\ connection = Null

NextEnv ==
    \E e \in ExtensionIds, persistent \in BOOLEAN,
       c \in SerializableCollections \cup {NoCollection} :
        SetEnvironmentVariableCollection(e, persistent, c)

SpecEnv == InitEnv /\ [][NextEnv]_vars

\* SpecProcess: terminals whose process lives on the extension host, the
\* $sendProcess* requests and latency requests.
InitProcess ==
    /\ isWindows = FALSE
    /\ observing = FALSE
    /\ TunnelInit
    /\ \E k \in {1, 2} : TermInitOver(k)
    /\ remoteAuthority \in {Null, "ssh-remote+a"}
    /\ connection = remoteAuthority

NextProcess ==
    \/ \E n \in InstanceIds : UserDisposeTerminal(n)
    \/ \E n \in InstanceIds : RequestSpawnExtHostProcess(n)
    \/ \E n \in InstanceIds : RequestStartExtensionTerminal(n)
    \/ \E id \in ProcessIds, emit \in {"emitData"} : SendProcessEvent(id, emit)
    \/ \E id \in ProcessIds : SendProcessExit(id)
    \/ \E id \in ProcessIds : SendResolvedLaunchConfig(id)
    \/ \E id \in ProcessIds : RequestLatency(id)
    \/ \E k \in 1..MaxProbes : LatencyReply(k)

SpecProcess == InitProcess /\ [][NextProcess]_vars

\* SpecRequests: the requests of the terminal service for an extension host
\* process and for the shells, on a bridge with or without a remote authority
\* beside a window with or without a remote connection.
Authorities == {"ssh-remote+a", "ssh-remote+b"}

InitRequests ==
    /\ isWindows = FALSE
    /\ observing = FALSE
    /\ TunnelInit
    /\ TermInitOver(1)
    /\ remoteAuthority \in {Null} \cup Authorities
    /\ connection \in {Null} \cup Authorities

NextRequests ==
    \/ \E n \in InstanceIds : RequestSpawnExtHostProcess(n)
    \/ \E n \in InstanceIds : RequestStartExtensionTerminal(n)
    \/ RequestAvailableShells
    \/ RequestDefaultShellAndArgs
    \/ \E k \in 1..MaxRequests, outcome \in {"fulfilled", "rejected"} : SettleRequest(k, outcome)
    \/ \E k \in 1..MaxRequests : ProxyInput(k)
    \/ \E id \in ProcessIds : SendProcessExit(id)
    \/ DisposeBridge

SpecRequests == InitRequests /\ [][NextRequests]_vars

\* SpecBridge: a bridge of a remote extension host with one terminal, its
\* data events, process proxies and link provider, and its dispose().
InitBridge ==
    /\ isWindows = FALSE
    /\ observing = FALSE
    /\ TunnelInit
    /\ TermInitOver(1)
    /\ remoteAuthority = "ssh-remote+a"
    /\ connection = "ssh-remote+a"

NextBridge ==
    \/ \E n \in InstanceIds : UserDisposeTerminal(n)
    \/ \E n \in InstanceIds : TitleChanged(n)
    \/ StartSendingDataEvents
    \/ \E n \in InstanceIds : EmitData(n, "a")
    \/ \E n \in InstanceIds : FlushBuffer(n)
    \/ \E n \in InstanceIds : RequestSpawnExtHostProcess(n)
    \/ \E k \in 1..MaxRequests : ProxyInput(k)
    \/ StartLinkProvider
    \/ StopLinkProvider
    \/ DisposeBridge

SpecBridge == InitBridge /\ [][NextBridge]_vars

\* SpecTesting: the diff subscriptions of the extension host.
InitTesting ==
    /\ isWindows = FALSE
    /\ observing = FALSE
    /\ TunnelInit
    /\ TermIdle

NextTesting ==
    \/ \E r \in TestingResources, u \in UriComponentsSet : SubscribeToDiffs(r, u)
    \/ \E r \in TestingResources, u \in UriComponentsSet : UnsubscribeFromDiffs(r, u)
    \/ \E r \in TestingResources, u \in UriComponentsSet, d \in TestsDiffs : DeliverDiff(r, u, d)
    \/ DisposeTesting

SpecTesting == InitTesting /\ [][NextTesting]_vars

\* ------------------------------------------------------------ properties
\* this._tunnels.get(host)?.get(port): the record stored under exactly
\* (host, port), 0 when there is none.
EntryIn(T, M, host, port) == IF T[host] # 0 THEN M[T[host]][port] ELSE 0

Entry(host, port) == EntryIn(tunnels, maps, host, port)

InMap(r) == \E h \in Hosts, p \in Ports : Entry(h, p) = r

\* The openTunnel invocations that await record r's promise.
CallsOf(r) == {c \in 1..Len(calls) : calls[c].rec = r}

\* The openTunnel invocations on record r that resolved to a handle.
HandlesOf(r) == {c \in CallsOf(r) : calls[c].st = "handle"}

TryDisposeReaction == [kind |-> "tryDispose", call |-> 0]

\* Nothing is left to run for record r: its promise is settled, no callback
\* waits on it and no tunnel dispose is in flight.
Quiet(r) == recs[r].value # "pending" /\ recs[r].reactions = << >> /\ recs[r].closeWaiters = 0

\* C1: an openTunnel call for a (host, port) that has an entry in the map
\* creates no second tunnel: it retains the entry's record, whose refcount
\* grows by one (to 2 for the second call), also while the promise is
\* pending; and each call on a promise that resolves to a tunnel resolves
\* to a handle of that record's tunnel.
C1_OpenTwiceCreatesOnce ==
    [][ /\ Len(calls') = Len(calls) + 1 =>
            LET c == calls'[Len(calls')]
                e == Entry(c.host, c.port)
            IN  e # 0 =>
                  /\ Len(recs') = Len(recs)
                  /\ c.rec = e
                  /\ recs'[e].refcount = recs[e].refcount + 1
                  /\ recs'[e].value = recs[e].value
                  /\ EntryIn(tunnels', maps', c.host, c.port) = e
        /\ \A c \in 1..Len(calls) :
              calls[c].st = "pending" /\ calls'[c].st # "pending"
              /\ recs[calls[c].rec].value = "tunnel"
              => calls'[c].st = "handle" /\ calls'[c].rec = calls[c].rec
      ]_vars

\* Two calls for the same (host, port) share one record with refcount 2 and
\* both have resolved to handles of its tunnel, the only tunnel created.
C1_Witness ==
    /\ Len(calls) = 2 /\ Len(recs) = 1
    /\ calls[1].host = calls[2].host /\ calls[1].port = calls[2].port
    /\ HandlesOf(1) = {1, 2}
    /\ recs[1].refcount = 2 /\ Entry(calls[1].host, calls[1].port) = 1

\* Two resolved openTunnel calls for the same (host, port) hold record r.
TwoHandles(r) ==
    \E c1, c2 \in HandlesOf(r) :
        c1 # c2 /\ calls[c1].host = calls[c2].host /\ calls[c1].port = calls[c2].port

\* C2: with two resolved calls holding a record of refcount 2, the dispose of
\* one handle (refcount 2 to 1) keeps the entry, registers no disposal, calls
\* no tunnel dispose and fires no onTunnelClosed; the next dispose (refcount
\* 1 to 0) removes the entry and registers the disposal, which calls the
\* tunnel's dispose once and then fires onTunnelClosed once.
C2_DisposeOnceThenTwice ==
    /\ [][ \A r \in 1..Len(recs) :
             InMap(r) /\ TwoHandles(r) =>
               /\ recs[r].refcount = 2 /\ recs'[r].refcount = 1 =>
                    /\ InMap(r)'
                    /\ recs'[r] = [recs[r] EXCEPT !.refcount = 1]
               /\ recs[r].refcount = 1 /\ recs'[r].refcount = 0 =>
                    /\ ~InMap(r)'
                    /\ recs'[r].reactions = Append(recs[r].reactions, TryDisposeReaction)
                    /\ recs'[r].disposeCalls = recs[r].disposeCalls
                    /\ recs'[r].closedFired = recs[r].closedFired
         ]_vars
    /\ [](\A r \in 1..Len(recs) :
             /\ recs[r].closedFired <= 1
             /\ recs[r].refcount > 0 => recs[r].closedFired = 0 /\ recs[r].disposeCalls = 0
             /\ TwoHandles(r) /\ recs[r].refcount = 0 /\ Quiet(r) =>
                    recs[r].closedFired = 1 /\ recs[r].disposeCalls = 1)

\* Both handles of a record have been disposed: the entry is gone, the tunnel
\* disposed once and onTunnelClosed fired once.
C2_Witness ==
    \E r \in 1..Len(recs) :
        /\ TwoHandles(r) /\ recs[r].openedFired = 2
        /\ recs[r].refcount = 0 /\ ~InMap(r) /\ Quiet(r)
        /\ recs[r].closedFired = 1 /\ recs[r].disposeCalls = 1

\* C3: the refcount of every record is never negative.
C3_RefcountNonNegative == \A r \in 1..Len(recs) : recs[r].refcount >= 0

\* A handle dispose has brought a record from refcount 2 down to 0.
C3_Witness ==
    \E r \in 1..Len(recs) :
        recs[r].refcount = 0 /\ TwoHandles(r) /\ ~InMap(r)


\* C4 as stated: the underlying tunnel's dispose is called only for a record
\* whose refcount is 0, dispose() of the service included.
C4_DisposedOnlyAtZero ==
    [][ \A r \in 1..Len(recs) :
          recs'[r].disposeCalls > recs[r].disposeCalls => recs[r].refcount = 0 ]_vars

\* The first callback waiting on record r's promise is the one of dispose().
ByServiceDispose(r) ==
    recs[r].reactions # << >> /\ Head(recs[r].reactions).kind = "svcDispose"

\* C4 amended: the disposal that a handle's dispose or closeTunnel starts
\* calls the underlying tunnel's dispose only for a record whose refcount is
\* 0; the callback of dispose() of the service calls it for every record it
\* visits whose promise resolved to a tunnel, whatever the refcount.
C4_DisposedAtZeroOrByService ==
    [][ \A r \in 1..Len(recs) :
          /\ recs'[r].disposeCalls > recs[r].disposeCalls =>
                recs[r].refcount = 0 \/ ByServiceDispose(r)
          /\ ByServiceDispose(r) /\ recs[r].value = "tunnel"
             /\ recs'[r].reactions = Tail(recs[r].reactions) =>
                recs'[r].disposeCalls = recs[r].disposeCalls + 1
      ]_vars

\* One tunnel was disposed after its refcount reached 0 and fired
\* onTunnelClosed; dispose() disposed another whose refcount is still positive.
C4_Witness ==
    \E r1, r2 \in 1..Len(recs) :
        /\ recs[r1].refcount = 0 /\ recs[r1].disposeCalls = 1 /\ recs[r1].closedFired = 1
        /\ recs[r2].refcount > 0 /\ recs[r2].disposeCalls = 1

\* C5: closeTunnel(host, port) on an entry sets its refcount to 0, deletes
\* the entry at once and registers the disposal on the promise; without an
\* entry it changes nothing.  The disposal calls the tunnel's dispose once
\* the promise has resolved to a tunnel and onTunnelClosed fires after it,
\* once; for a promise resolved to undefined neither happens.
C5_CloseTunnel ==
    /\ \A h \in Hosts, p \in Ports :
          LET e == Entry(h, p)
              S1 == closeTunnel(Store, h, p)
          IN  IF e = 0
              THEN S1 = Store
              ELSE /\ S1.recs = [recs EXCEPT ![e].refcount = 0,
                                             ![e].reactions = Append(@, TryDisposeReaction)]
                   /\ EntryIn(S1.tunnels, S1.maps, h, p) = 0
                   /\ S1.tunnels = tunnels
                   /\ S1.maps = [maps EXCEPT ![tunnels[h]][p] = 0]
                   /\ S1.removals = removals
    /\ \A r \in 1..Len(recs) :
          /\ recs[r].closedFired <= 1
          /\ recs[r].closedFired + recs[r].closeWaiters = recs[r].disposeCalls
          /\ recs[r].disposeCalls > 0 => recs[r].value = "tunnel" /\ recs[r].refcount = 0
          /\ recs[r].refcount = 0 /\ Quiet(r) =>
                recs[r].closedFired = (IF recs[r].value = "tunnel" THEN 1 ELSE 0)

\* closeTunnel has closed an entry of refcount 2 whose promise is pending:
\* the refcount is 0, the entry gone and the disposal registered.
C5_Witness ==
    \E r \in 1..Len(recs) :
        /\ recs[r].value = "pending" /\ Cardinality(CallsOf(r)) = 2
        /\ recs[r].refcount = 0 /\ ~InMap(r)
        /\ recs[r].reactions[Len(recs[r].reactions)] = TryDisposeReaction

\* C6: a record stored under one localhost alias is what getTunnelFromMap
\* returns for the other alias, no port has a record under both aliases, and
\* any other host is looked up under its own name only.
C6_LocalhostAliases ==
    \A p \in Ports :
        /\ ~(Entry("localhost", p) # 0 /\ Entry("127.0.0.1", p) # 0)
        /\ Entry("localhost", p) # 0 =>
              getTunnelFromMap(Store, "127.0.0.1", p) = Entry("localhost", p)
        /\ Entry("127.0.0.1", p) # 0 =>
              getTunnelFromMap(Store, "localhost", p) = Entry("127.0.0.1", p)
        /\ \A h \in Hosts \ {"localhost", "127.0.0.1"} :
              getTunnelFromMap(Store, h, p) = Entry(h, p)

\* An openTunnel for 127.0.0.1 has retained the record stored under
\* localhost for the same port.
C6_Witness ==
    \E r \in 1..Len(recs), c \in 1..Len(calls) :
        /\ Entry("localhost", calls[c].port) = r /\ recs[r].refcount = 2
        /\ calls[c].host = "127.0.0.1" /\ calls[c].rec = r
        /\ Entry("127.0.0.1", calls[c].port) = 0

\* The port createWithProvider prefers for the latest invocation.
PreferredLocalPort ==
    IF lastCall.localPort = NoLocalPort THEN lastCall.port ELSE lastCall.localPort[1]

\* C7: the elevationRequired passed to forwardPort is true exactly when
\* elevateIfNeeded is true, the preferred local port (localPort when given,
\* otherwise remotePort) is below 1024 and the platform is not Windows.
C7_ElevationRequired ==
    lastCall.forwarded # "no" =>
        lastCall.elevationRequired =
            (lastCall.elevateIfNeeded /\ PreferredLocalPort < 1024 /\ ~isWindows)

\* forwardPort was called with elevationRequired = true for a privileged
\* local port that differs from the unprivileged remote port.
C7_Witness ==
    /\ lastCall.forwarded # "no" /\ lastCall.elevationRequired
    /\ lastCall.localPort = <<1023>> /\ lastCall.port = 8080

NoTerminal(id) ==
    \/ id.kind = "string" /\ extHostTerminalIds[id.s] = 0
    \/ id.kind = "number" /\ id.n \notin LiveInstances(Term)
    \/ id.kind = "string" /\ extHostTerminalIds[id.s] \notin LiveInstances(Term)

\* C9: $show, $hide, $dispose and $sendText called with an identifier that
\* resolves to no terminal change no terminal instance, not the active
\* instance, not the panel, send nothing to the extension host and leave the
\* id table as it is.
C9_UnresolvedIsNoOp ==
    \A id \in TerminalIdentifiers :
        NoTerminal(id) =>
            /\ \A preserveFocus \in BOOLEAN : show(Term, id, preserveFocus) = Term
            /\ hide(Term, id) = Term
            /\ dispose(Term, id) = Term
            /\ \A addNewLine \in BOOLEAN : sendText(Term, id, "ls", addNewLine) = Term

\* An active instance in a visible panel, beside a string id whose terminal
\* was disposed, a string id never entered and a numeric id of no instance.
C9_Witness ==
    /\ activeInstance \in LiveInstances(Term)
    /\ panel.visible
    /\ sent # << >>
    /\ \E str \in ExtHostIds :
          /\ extHostTerminalIds[str] # 0
          /\ instances[extHostTerminalIds[str]].disposed
    /\ extHostTerminalIds["uuid-x"] = 0
    /\ NoTerminal(NumberId(MaxTerminals + 1))

\* The id tables a lookup could be given.
IdTables == [StringIds -> 0..MaxTerminals]

\* C10: once $createTerminal(extHostTerminalId, config) has returned, the
\* table maps extHostTerminalId to the numeric id of the instance that call
\* created, and to no other; $sendText, $show and $dispose with the string id
\* act on that instance and on no other instance (on none once it is
\* disposed); a numeric identifier resolves to itself whatever the table holds.
C10_StringIdResolvesToCreated ==
    /\ \A str \in ExtHostIds :
          LET n == extHostTerminalIds[str]
              id == StringId(str)
              sentText == sendText(Term, id, "ls", TRUE)
              shown == show(Term, id, TRUE)
              disposed == dispose(Term, id)
          IN  n # 0 =>
                /\ n \in 1..Len(instances)
                /\ instances[n].extHostTerminalId = str
                /\ \A other \in StringIds \ {str} : extHostTerminalIds[other] # n
                /\ getTerminalId(Term, id) = n
                /\ IF instances[n].disposed
                   THEN sentText = Term /\ shown = Term /\ disposed = Term
                   ELSE /\ sentText.instances[n].input =
                               Append(instances[n].input, <<"ls", TRUE>>)
                        /\ shown.activeInstance = n /\ shown.panel.visible
                        /\ disposed.instances[n].disposed
                        /\ \A m \in 1..Len(instances) \ {n} :
                              /\ sentText.instances[m] = instances[m]
                              /\ shown.instances[m] = instances[m]
                              /\ disposed.instances[m] = instances[m]
    /\ \A n \in 1..(MaxTerminals + 1), table \in IdTables :
          getTerminalId([Term EXCEPT !.extHostTerminalIds = table], NumberId(n)) = n

\* Two live instances, the second created by $createTerminal and not the
\* active one, which has received text under its string id.
C10_Witness ==
    /\ Len(instances) = 2
    /\ LiveInstances(Term) = {1, 2}
    /\ activeInstance = 1
    /\ \E str \in ExtHostIds :
          /\ extHostTerminalIds[str] = 2
          /\ instances[2].extHostTerminalId = str
    /\ instances[2].input # << >>

\* ------------------------------------------------ terminal data
\* The calls on the extension host proxy since $startSendingDataEvents.
SessionSent == SubSeq(sent, session.sentAtStart + 1, Len(sent))

\* The data strings $acceptTerminalProcessData carried for instance n since
\* $startSendingDataEvents, in order.
RECURSIVE DataOf(_, _)
DataOf(msgs, n) ==
    IF msgs = << >> THEN << >>
    ELSE IF Head(msgs).method = "$acceptTerminalProcessData" /\ Head(msgs).id = n
    THEN <<Head(msgs).arg>> \o DataOf(Tail(msgs), n)
    ELSE DataOf(Tail(msgs), n)

Forwarded(n) == DataOf(SessionSent, n)

\* The chunks instance n has emitted since $startSendingDataEvents.
EmittedInSession(n) == SubSeq(emitted[n], session.emittedAtStart[n] + 1, Len(emitted[n]))

\* C11 as stated: while data events are being sent, the data forwarded for a
\* terminal (with what its buffer still holds) is the concatenation of the
\* chunks the terminal emitted meanwhile, in at most as many messages.
C11_ForwardedIsEmitted ==
    dataEventTracker =>
        \A n \in InstanceIds :
            /\ Join(Forwarded(n)) \o Join(buffers[n]) = Join(EmittedInSession(n))
            /\ Len(Forwarded(n)) <= Len(EmittedInSession(n))

\* C11 amended: while data events are being sent, the data forwarded for a
\* terminal (with what its buffer still holds) is the concatenation of the
\* initial data events replayed by $startSendingDataEvents followed by the
\* chunks the terminal emitted since, in at most as many messages as there
\* are replayed events and emitted chunks; no buffer outlives the tracker.
C11_ForwardedIsReplayedThenEmitted ==
    /\ dataEventTracker =>
          \A n \in InstanceIds :
              /\ Join(Forwarded(n)) \o Join(buffers[n]) =
                     Join(session.replayed[n]) \o Join(EmittedInSession(n))
              /\ Len(Forwarded(n)) <= Len(session.replayed[n]) + Len(EmittedInSession(n))
    /\ ~dataEventTracker => \A n \in InstanceIds : buffers[n] = << >>

\* Two chunks emitted while data events are sent have left as one message.
C11_Witness ==
    /\ dataEventTracker
    /\ \E n \in InstanceIds :
          /\ EmittedInSession(n) = <<"a", "b">>
          /\ Forwarded(n) = <<"ab">>
          /\ buffers[n] = << >>

\* ------------------------------------------------ order of terminal events
\* The $accept* calls that report an event of one terminal.
DataMethod == "$acceptTerminalProcessData"

TerminalEventMethods ==
    {"$acceptTerminalOpened", "$acceptTerminalDimensions", "$acceptTerminalTitleChange",
     "$acceptTerminalClosed", DataMethod}

\* C12: the $accept* calls of a terminal reach the extension host in the
\* order of the terminal's events: whenever a call reports an event of
\* another kind than data, every chunk the terminal emitted before it has
\* been sent before it (none is still in the terminal's buffer, unless the
\* buffer is sent earlier in the same step).
C12_EmissionOrder ==
    [][ \A n \in InstanceIds : \A i \in (Len(sent) + 1)..Len(sent') :
          (sent'[i].id = n /\ sent'[i].method \in TerminalEventMethods \ {DataMethod}) =>
              \/ buffers[n] = << >>
              \/ \E j \in (Len(sent) + 1)..(i - 1) :
                    sent'[j].id = n /\ sent'[j].method = DataMethod
      ]_vars

\* ------------------------------------------------ latency requests
LatencyMethod == "$acceptProcessRequestLatency"

\* How many $acceptProcessRequestLatency calls for terminal id are in msgs.
RoundTrips(msgs, id) ==
    Cardinality({i \in 1..Len(msgs) : msgs[i].method = LatencyMethod /\ msgs[i].id = id})

\* How many latency values the process proxy of terminal id has emitted.
Latencies(events, id) ==
    Cardinality({i \in 1..Len(events[id]) : events[id][i] = "emitLatency"})

\* The round trips a latency request has issued: one more than it has seen
\* completed, LatencyCount at most.
Issued(probe) == IF probe.done < LatencyCount THEN probe.done + 1 ELSE LatencyCount

RECURSIVE IssuedFor(_, _, _)
IssuedFor(ps, k, id) ==
    IF k = 0 THEN 0
    ELSE (IF ps[k].terminalId = id THEN Issued(ps[k]) ELSE 0) + IssuedFor(ps, k - 1, id)

\* Every round trip of terminal id was issued by a latency request: a request
\* has one round trip out until that one completes, and never more than
\* LatencyCount in all.
RoundTripsIssued ==
    \A id \in ProcessIds : RoundTrips(sent, id) = IssuedFor(probes, Len(probes), id)

\* Latency request k sees its last round trip complete in this step.
Finishes(k) ==
    /\ k \in 1..Len(probes)
    /\ probes[k].done < LatencyCount
    /\ probes'[k].done = LatencyCount

\* The $acceptProcessRequestLatency calls of a step: one when a latency
\* request starts, one when a request's first round trip completes, and none
\* otherwise.
RoundTripPerStep ==
    \A id \in ProcessIds :
        RoundTrips(sent', id) - RoundTrips(sent, id) =
            IF Len(probes') > Len(probes) /\ probes'[Len(probes')].terminalId = id THEN 1
            ELSE IF \E k \in 1..Len(probes) :
                       /\ probes[k].terminalId = id
                       /\ probes'[k].done = probes[k].done + 1
                       /\ probes'[k].done < LatencyCount
                 THEN 1
                 ELSE 0

NoProxyIds == {id \in ProcessIds : ~processProxies[id]}

\* The latency requests of terminal id that wait for their last round trip.
LastRoundTrip(id) ==
    {k \in 1..Len(probes) : probes[k].terminalId = id /\ probes[k].done = LatencyCount - 1}

\* The $sendProcess* requests for an id without process proxy change nothing,
\* and a latency request that finishes for such an id logs 'Unknown terminal'
\* and emits nothing.
UnknownIdIsIgnored(id) ==
    /\ \A emit \in ProcessEmits : sendProcessEvent(Term, id, emit) = Term
    /\ sendProcessExit(Term, id) = Term
    /\ \A k \in LastRoundTrip(id) :
          LET T == latencyResume(Term, k)
          IN  /\ T.errors = Append(errors, [error |-> "Unknown terminal", id |-> id])
              /\ T.proxyEvents = proxyEvents
              /\ T.processProxies = processProxies
              /\ T.sent = sent

\* C14 as stated: for an id without registered process proxy the $sendProcess*
\* requests emit nothing and change no state, and a finished latency request
\* or $sendResolvedLaunchConfig logs 'Unknown terminal' and emits nothing.
C14_UnknownIdLogs ==
    \A id \in NoProxyIds :
        /\ UnknownIdIsIgnored(id)
        /\ sendResolvedLaunchConfig(Term, id) = LogError(Term, id)

\* C14 amended: as stated, except that $sendResolvedLaunchConfig logs
\* 'Unknown terminal' only when the terminal service has an instance with
\* that id, and otherwise changes nothing.
C14_UnknownIdLogsIfInstance ==
    \A id \in NoProxyIds :
        /\ UnknownIdIsIgnored(id)
        /\ sendResolvedLaunchConfig(Term, id) =
               IF getInstanceFromId(Term, id) # 0 THEN LogError(Term, id) ELSE Term

\* A terminal lost its process proxy at exit, 'Unknown terminal' was logged
\* for it afterwards, and another id has neither proxy nor instance.
C14_Witness ==
    /\ \E id \in NoProxyIds :
          /\ proxyEvents[id] # << >>
          /\ proxyEvents[id][Len(proxyEvents[id])] = "emitExit"
          /\ errors = <<[error |-> "Unknown terminal", id |-> id]>>
    /\ \E id \in NoProxyIds : getInstanceFromId(Term, id) = 0

\* ------------------------------------------------ environment variables
\* The last $setEnvironmentVariableCollection call for extension e, 0 if none.
LastEnvCall(e) ==
    LET is == {i \in 1..Len(envCalls) : envCalls[i].extensionIdentifier = e}
    IN  IF is = {} THEN 0 ELSE CHOOSE i \in is : \A j \in is : j <= i

\* The entries of a stored collection and of a serialized one.
MapEntries(map) == {<<v, map[v]>> : v \in DOMAIN map}
PairEntries(pairs) == {pairs[i] : i \in 1..Len(pairs)}

\* C15: the environment variable service holds a collection for an extension
\* exactly when the last $setEnvironmentVariableCollection call for it carried
\* one, and then with the persistent flag and the entries of that call; after
\* a call without collection the extension has none.
C15_HoldsLastCollection ==
    \A e \in ExtensionIds :
        IF LastEnvCall(e) = 0 THEN ~collections[e].held
        ELSE LET call == envCalls[LastEnvCall(e)]
             IN  /\ collections[e].held <=> call.collection.defined
                 /\ call.collection.defined =>
                       /\ collections[e].persistent = call.persistent
                       /\ MapEntries(collections[e].map) = PairEntries(call.collection.pairs)
                       /\ Cardinality(DOMAIN collections[e].map) = Len(call.collection.pairs)

\* One extension's collection was set and then deleted, another's last call
\* carried a persistent collection of two entries, which the service holds.
C15_Witness ==
    \E e1 \in ExtensionIds, e2 \in ExtensionIds :
        /\ e1 # e2
        /\ \E i \in 1..Len(envCalls) :
              /\ i < LastEnvCall(e1)
              /\ envCalls[i].extensionIdentifier = e1
              /\ envCalls[i].collection.defined
        /\ ~envCalls[LastEnvCall(e1)].collection.defined
        /\ ~collections[e1].held
        /\ LastEnvCall(e2) # 0
        /\ collections[e2].held
        /\ collections[e2].persistent
        /\ Cardinality(DOMAIN collections[e2].map) = 2

\* ------------------------------------------------ closeTunnel by alias
LocalhostAliases == {"localhost", "127.0.0.1"}

\* C16: closeTunnel called with one localhost alias closes the tunnel opened
\* under the other alias: when the record of a resolved tunnel is in the map
\* of the other alias, closeTunnel removes it from the map, sets its refcount
\* to 0 and registers the disposal of the underlying tunnel (which fires
\* onTunnelClosed).
C16_CloseTunnelByAlias ==
    \A h \in LocalhostAliases, p \in Ports :
        LET other == getOtherLocalhost(h)
            r == Entry(other, p)
            S == closeTunnel(Store, h, p)
        IN  (r # 0 /\ Entry(h, p) = 0 /\ recs[r].value = "tunnel") =>
                /\ EntryIn(S.tunnels, S.maps, other, p) = 0
                /\ S.recs[r].refcount = 0
                /\ S.recs[r].reactions = Append(recs[r].reactions, TryDisposeReaction)

\* ------------------------------------------------ failed tunnels
\* Every openTunnel call that waits on record r has resolved and every
\* removeEmptyTunnelFromMap has run to its end.
OpenTunnelResolved(r) ==
    /\ CallsOf(r) # {}
    /\ \A c \in CallsOf(r) : calls[c].st # "pending"
    /\ removals = << >>

\* C17: a record whose promise resolved to undefined is removed from the map
\* once openTunnel has resolved, and a later openTunnel for the same host and
\* port does not retain such a record.
C17_FailedRecordRemoved ==
    \A r \in 1..Len(recs) :
        (recs[r].value = "undefined" /\ OpenTunnelResolved(r)) =>
            /\ ~InMap(r)
            /\ \A h \in Hosts, p \in Ports :
                  LET got == retainOrCreateTunnel(Store, h, p)
                  IN  ~(got.outcome = "retained" /\ got.rec = r)

\* ------------------------------------------------ handles
\* The refcounts of the records.
Refcounts(S) == [r \in 1..Len(S.recs) |-> S.recs[r].refcount]

\* C18: a handle releases at most the one reference its openTunnel call
\* acquired: a second dispose of a handle changes no refcount, and the
\* dispose of a handle whose record has left the map does not change the
\* refcount of the record that is in the map for the same host and port now.
C18_HandleReleasesOnce ==
    \A c \in 1..Len(calls) :
        calls[c].st = "handle" =>
            LET t == calls[c].rec
                once == handleDispose(Store, t)
                twice == handleDispose(once, t)
            IN  /\ Refcounts(twice) = Refcounts(once)
                /\ ~InMap(t) => Refcounts(once) = Refcounts(Store)

\* ------------------------------------------------ tunnel events
\* C19: onTunnelOpened has fired exactly once for every openTunnel call that
\* resolved to a handle of the tunnel, retaining calls included (N events for
\* N such calls); onTunnelClosed fires at most once for a tunnel, and has
\* fired once when the tunnel's disposal is over.
C19_OpenedPerCallClosedOnce ==
    \A r \in 1..Len(recs) :
        /\ recs[r].openedFired = Cardinality(HandlesOf(r))
        /\ recs[r].closedFired <= 1
        /\ (recs[r].value = "tunnel" /\ recs[r].refcount = 0 /\ Quiet(r)) =>
               recs[r].closedFired = 1

\* Two openTunnel calls resolved to handles of one tunnel: onTunnelOpened
\* fired twice, and after the disposal onTunnelClosed fired once.
C19_Witness ==
    \E r \in 1..Len(recs) :
        /\ Cardinality(HandlesOf(r)) = 2
        /\ recs[r].openedFired = 2
        /\ recs[r].closedFired = 1

\* The openTunnel call that created record r.
Creator(r) == Min(CallsOf(r))

\* C20: onTunnelClosed is never fired for a tunnel before the onTunnelOpened
\* of the openTunnel call that created it, whenever the disposal was asked
\* for; and it is fired only when a dispose of the underlying tunnel has
\* completed.
C20_ClosedAfterOpened ==
    [][ \A r \in 1..Len(recs) :
          /\ recs'[r].closedFired > recs[r].closedFired =>
                /\ calls[Creator(r)].st = "handle"
                /\ recs[r].openedFired >= 1
                /\ recs[r].disposeCalls >= 1
                /\ recs'[r].closeWaiters = recs[r].closeWaiters - 1
          /\ recs'[r].closedFired + recs'[r].closeWaiters <= recs'[r].disposeCalls
      ]_vars

\* The creating call has resolved to a handle and fired onTunnelOpened, the
\* underlying tunnel's dispose has completed and onTunnelClosed has fired.
C20_Witness ==
    \E r \in 1..Len(recs) :
        /\ HandlesOf(r) = {Creator(r)}
        /\ recs[r].openedFired = 1
        /\ recs[r].disposeCalls = 1
        /\ recs[r].closeWaiters = 0
        /\ recs[r].closedFired = 1

\* ------------------------------------------------ provider registrations
\* C21: the disposable of setTunnelProvider unregisters only the provider it
\* registered: while a provider registered later is installed, the dispose
\* of an earlier disposable leaves the provider, canElevate and canMakePublic
\* as they are.
C21_DisposableUnregistersOwn ==
    [][ \A i \in 1..Len(registrations) :
          ( /\ registrations'[i].disposals > registrations[i].disposals
            /\ i < Len(registrations)
            /\ tunnelProvider # Undef
            /\ tunnelProvider = registrations[Len(registrations)].provider ) =>
              UNCHANGED <<tunnelProvider, canElevate, canMakePublic>>
      ]_vars

\* ------------------------------------------------ dispose() of the service
\* The underlying tunnel of record r has been asked to dispose.
TunnelIsDisposed(r) == recs[r].disposeCalls >= 1

\* C22: when dispose() has resolved, the map is empty and every tunnel that
\* had a record when dispose() was called or got one while dispose() was
\* running, and whose promise has resolved to a tunnel, has been disposed,
\* whatever its refcount.
C22_DisposeDisposesAll ==
    [][ (svc.pc # "done" /\ svc'.pc = "done") =>
          /\ \A h \in Hosts : tunnels'[h] = 0
          /\ \A r \in 1..Len(recs) :
                (recs[r].value = "tunnel" /\ recs[r].refcount > 0) => TunnelIsDisposed(r)
      ]_vars

\* ------------------------------------------------ terminal announcements
\* The positions in sent of the calls about terminal n, and of its
\* $acceptTerminalOpened calls.
CallsAbout(n) == {i \in 1..Len(sent) : sent[i].id = n}
OpenedCalls(n) == {i \in CallsAbout(n) : sent[i].method = "$acceptTerminalOpened"}

\* C23: every terminal instance, present at construction or created later,
\* is announced by exactly one $acceptTerminalOpened, which is the first call
\* sent about its id and carries the instance's extension host terminal id:
\* for an instance created by $createTerminal the string id of that request.
\* No terminal that does not exist is announced.
C23_OpenedOnceAndFirst ==
    /\ \A n \in 1..Len(instances) :
          /\ Cardinality(OpenedCalls(n)) = 1
          /\ \A i \in OpenedCalls(n) :
                /\ \A j \in CallsAbout(n) : i <= j
                /\ sent[i].arg = instances[n].extHostTerminalId
    /\ \A str \in StringIds :
          extHostTerminalIds[str] # 0 =>
              \A i \in OpenedCalls(extHostTerminalIds[str]) : sent[i].arg = str
    /\ \A i \in 1..Len(sent) :
          sent[i].method = "$acceptTerminalOpened" => sent[i].id \in 1..Len(instances)

\* A terminal that was there at construction and one created by
\* $createTerminal have been announced, and further calls about both followed.
C23_Witness ==
    /\ Len(instances) = 2
    /\ instances[1].extHostTerminalId = Undef
    /\ extHostTerminalIds["uuid-1"] = 2
    /\ sent[1] = [method |-> "$acceptTerminalOpened", id |-> 1, arg |-> Undef]
    /\ \E i \in 3..Len(sent) :
          sent[i] = [method |-> "$acceptTerminalOpened", id |-> 2, arg |-> "uuid-1"]
    /\ Cardinality(CallsAbout(1)) >= 2
    /\ Cardinality(CallsAbout(2)) >= 2

\* ------------------------------------------------ the data event tracker
\* The positions of the $acceptTerminalProcessData calls a step sends.
NewDataCalls == {i \in (Len(sent) + 1)..Len(sent') : sent'[i].method = DataMethod}

\* C24: there is one data event tracker at most and terminal data is
\* forwarded only while it exists: $startSendingDataEvents with a tracker
\* changes nothing, and a step sends $acceptTerminalProcessData only when the
\* tracker exists before the step or is created by it; so none is sent before
\* the first $startSendingDataEvents, and what a terminal emits after
\* $stopSendingDataEvents is not buffered and not sent before the next
\* $startSendingDataEvents.
C24_DataOnlyWhileTracked ==
    [][ /\ dataEventTracker => startSendingDataEvents(Term) = Term
        /\ NewDataCalls # {} => (dataEventTracker \/ dataEventTracker')
        /\ (~dataEventTracker /\ ~dataEventTracker') =>
              \A n \in InstanceIds : buffers[n] = << >> /\ buffers'[n] = << >>
      ]_vars

\* Data events were sent and stopped; a terminal that no longer records its
\* initial events has emitted a second chunk since, which was not sent.
C24_Witness ==
    /\ ~dataEventTracker
    /\ \E n \in LiveInstances(Term) :
          /\ ~capturing[n]
          /\ emitted[n] = <<"a", "b">>
          /\ DataOf(sent, n) = <<"a">>
          /\ session.emittedAtStart[n] = 0

\* ------------------------------------------------ data of a closed terminal
\* C25: once $acceptTerminalClosed has been sent for a terminal id, no
\* $acceptTerminalProcessData is sent for that id: what the buffer of a
\* disposed instance still held leaves before the closed call or not at all.
C25_NoDataAfterClosed ==
    \A i \in 1..Len(sent) : \A j \in (i + 1)..Len(sent) :
        sent[i].method = "$acceptTerminalClosed" =>
            ~(sent[j].method = DataMethod /\ sent[j].id = sent[i].id)

\* ------------------------------------------------ life of a process proxy
\* The requests a step sends that register a process proxy under terminal id.
RegisteringCalls(id) ==
    {i \in (Len(sent) + 1)..Len(sent') :
        sent'[i].id = id /\ sent'[i].method \in {"$spawnExtHostProcess", "$startExtensionTerminal"}}

\* How often emitExit has been called on the proxies of terminal id.
Exits(events, id) ==
    Cardinality({i \in 1..Len(events[id]) : events[id][i] = "emitExit"})

\* C26: a process proxy is registered under its terminal id by a spawn or
\* start request only and removed by the first $sendProcessExit for the id
\* only: a step calls emitExit at most once, on a registered proxy, which it
\* removes; while no proxy is registered, every $sendProcess* request for the
\* id is ignored and nothing is emitted for the id.
C26_ProxyUntilFirstExit ==
    [][ \A id \in ProcessIds :
          /\ (~processProxies[id] /\ processProxies'[id]) => RegisteringCalls(id) # {}
          /\ (processProxies[id] /\ ~processProxies'[id]) =>
                proxyEvents'[id] = Append(proxyEvents[id], "emitExit")
          /\ Exits(proxyEvents', id) # Exits(proxyEvents, id) =>
                /\ processProxies[id] /\ ~processProxies'[id]
                /\ Exits(proxyEvents', id) = Exits(proxyEvents, id) + 1
          /\ (~processProxies[id] /\ ~processProxies'[id]) => proxyEvents'[id] = proxyEvents[id]
          /\ ~processProxies[id] =>
                /\ sendProcessExit(Term, id) = Term
                /\ \A emit \in ProcessEmits : sendProcessEvent(Term, id, emit) = Term
      ]_vars

\* The proxy of a terminal was registered, exited, was registered again by a
\* new request and exited again: two registrations, two exits.
C26_Witness ==
    \E id \in ProcessIds :
        /\ ~processProxies[id]
        /\ Exits(proxyEvents, id) = 2
        /\ Cardinality({i \in 1..Len(sent) : sent[i].id = id
                          /\ sent[i].method \in {"$spawnExtHostProcess", "$startExtensionTerminal"}}) = 2

\* ------------------------------------------------ requests of the terminal service
\* A step in which the terminal service fires a request of one of the kinds.
Fires(kinds) ==
    /\ Len(requests') = Len(requests) + 1
    /\ requests'[Len(requests')].kind \in kinds

Fired == requests'[Len(requests')]

Settled == {"fulfilled", "rejected"}

\* C27: a spawn request is served only by a bridge with a remote authority.
\* Without one the request registers no process proxy, sends nothing and
\* attaches no listener to its proxy, and its callback is never invoked; with
\* one (and the bridge not disposed) the proxy is registered,
\* $spawnExtHostProcess is sent and the listeners are attached, and the
\* callback has been invoked exactly once when the call has settled,
\* fulfilled or rejected, and not before.
C27_SpawnOnlyWhenRemote ==
    [][ /\ (Fires({"spawn"}) /\ remoteAuthority = Null) =>
              /\ processProxies' = processProxies
              /\ sent' = sent
              /\ ~Fired.listeners /\ Fired.promise = "none"
        /\ (Fires({"spawn"}) /\ remoteAuthority # Null /\ ~isDisposed) =>
              /\ processProxies'[Fired.terminalId]
              /\ sent' = Append(sent, [method |-> "$spawnExtHostProcess",
                                       id |-> Fired.terminalId, arg |-> ""])
              /\ Fired.listeners /\ Fired.promise = "pending"
        /\ \A k \in 1..Len(requests') :
              requests'[k].kind = "spawn" =>
                  /\ requests'[k].callbacks = IF requests'[k].promise \in Settled THEN 1 ELSE 0
                  /\ remoteAuthority = Null =>
                        (requests'[k].promise = "none" /\ onInput(Term', k) = Term')
      ]_vars

\* On a bridge with a remote authority one spawn request was fulfilled and
\* another rejected, and the callback of each was invoked once.
C27_Witness ==
    /\ remoteAuthority # Null
    /\ Len(requests) = 2
    /\ requests[1] = [kind |-> "spawn", terminalId |-> 1, listeners |-> TRUE,
                      promise |-> "rejected", callbacks |-> 1]
    /\ requests[2].kind = "spawn" /\ requests[2].promise = "fulfilled"
    /\ requests[2].callbacks = 1

ShellKinds == {"availableShells", "defaultShellAndArgs"}

\* C30: a request for the available shells or the default shell and
\* arguments is answered only by the bridge of the primary extension host.
\* With a remote connection the bridge (not disposed) asks its extension host
\* exactly when its remote authority is the connection's, and otherwise
\* leaves the request untouched for good; without a connection it asks. The
\* callback is invoked once when the extension host has answered.
C30_ShellsByPrimaryOnly ==
    [][ /\ (Fires(ShellKinds) /\ ~isDisposed) =>
              IF connection = Null \/ remoteAuthority = connection
              THEN /\ Fired.promise = "pending"
                   /\ Len(sent') = Len(sent) + 1
                   /\ sent'[Len(sent')].method =
                          IF Fired.kind = "availableShells" THEN "$getAvailableShells"
                          ELSE "$getDefaultShellAndArgs"
              ELSE /\ Fired.promise = "none"
                   /\ sent' = sent
        /\ \A k \in 1..Len(requests) :
              requests[k].kind \in ShellKinds =>
                  /\ requests[k].callbacks = IF requests[k].promise = "fulfilled" THEN 1 ELSE 0
                  /\ requests[k].promise = "none" => requests'[k] = requests[k]
      ]_vars

\* In a window with a remote connection the bridge of the connection's
\* extension host has answered a request for the available shells and one
\* for the default shell.
C30_Witness ==
    /\ connection # Null /\ remoteAuthority = connection
    /\ Len(requests) = 2
    /\ requests[1].kind = "availableShells" /\ requests[1].callbacks = 1
    /\ requests[2].kind = "defaultShellAndArgs" /\ requests[2].callbacks = 1

\* ------------------------------------------------ the link provider
\* How many of the link provider registrations are registered.
Alive(providers) == Cardinality({i \in 1..Len(providers) : providers[i]})

\* C28: at most one link provider registration of the bridge is alive, the
\* one _linkProvider refers to: after $startLinkProvider only the new
\* registration is alive, after $stopLinkProvider and after dispose() none
\* is, and $stopLinkProvider with none registered changes nothing (but a
\* reference to a registration that dispose() withdrew, which it clears).
C28_OneLinkProvider ==
    /\ Alive(linkProviders) <= 1
    /\ \A i \in 1..Len(linkProviders) : linkProviders[i] => linkProvider = i
    /\ LET T == startLinkProvider(Term)
       IN  /\ Alive(T.linkProviders) = 1
           /\ T.linkProviders[T.linkProvider]
           /\ T.linkProvider = Len(linkProviders) + 1
    /\ Alive(stopLinkProvider(Term).linkProviders) = 0
    /\ stopLinkProvider(Term).linkProvider = 0
    /\ Alive(disposeBridge(Term).linkProviders) = 0
    /\ linkProvider = 0 => stopLinkProvider(Term) = Term
    /\ Alive(linkProviders) = 0 =>
          [stopLinkProvider(Term) EXCEPT !.linkProvider = linkProvider] = Term

\* $startLinkProvider was called twice: the first registration is withdrawn,
\* the second is alive.
C28_Witness ==
    /\ linkProviders = <<FALSE, TRUE>>
    /\ linkProvider = 2

\* ------------------------------------------------ after dispose()
\* C29: after dispose() of the bridge nothing is sent to the extension host
\* for a later event of a terminal, of its data or of its process proxy (a
\* step that neither creates nor disposes the data event tracker).
C29_SilentAfterDispose ==
    [][ (isDisposed /\ dataEventTracker' = dataEventTracker) => sent' = sent ]_vars

\* ------------------------------------------------ diff subscriptions
\* The subscriptions to (resource, uri) that are not disposed.
ActiveFor(G, resource, uri) ==
    {k \in 1..Len(G.subscriptions) :
        /\ ~G.subscriptions[k].disposed
        /\ G.subscriptions[k].resource = resource
        /\ G.subscriptions[k].uri = uri}

\* C31: a diff the test service delivers for a subscribed (resource, uri) is
\* forwarded by $acceptDiff with that resource and uri; after
\* $unsubscribeFromDiffs(resource, uri) the key has no entry, no subscription
\* to (resource, uri) is left active and a diff delivered for it sends no
\* $acceptDiff; $unsubscribeFromDiffs for a key without entry changes nothing.
C31_ForwardedUntilUnsubscribed ==
    \A r \in TestingResources, u \in UriComponentsSet :
        LET key == getTestSubscriptionKey(r, u)
            G == unsubscribeFromDiffs(Testing, r, u)
        IN  /\ testSubscriptions[key] # 0 =>
                  \A d \in TestsDiffs :
                      LET G1 == deliverDiff(Testing, r, u, d, 1)
                      IN  /\ Len(G1.acceptedDiffs) > Len(acceptedDiffs)
                          /\ \A i \in (Len(acceptedDiffs) + 1)..Len(G1.acceptedDiffs) :
                                G1.acceptedDiffs[i] = [resource |-> r, uri |-> u, diff |-> d]
            /\ G.testSubscriptions[key] = 0
            /\ ActiveFor(G, r, u) = {}
            /\ \A d \in TestsDiffs : deliverDiff(G, r, u, d, 1) = G
            /\ testSubscriptions[key] = 0 => G = Testing

\* C32: no subscription stays active without an entry in the subscription
\* table, so that $unsubscribeFromDiffs for its key and dispose() reach it:
\* every subscription that is not disposed is the one stored under its key,
\* and after dispose() every subscription is disposed.
C32_NoSubscriptionLeft ==
    /\ \A k \in 1..Len(subscriptions) :
          ~subscriptions[k].disposed =>
              testSubscriptions[getTestSubscriptionKey(subscriptions[k].resource,
                                                       subscriptions[k].uri)] = k
    /\ \A k \in 1..Len(subscriptions) : disposeTesting(Testing).subscriptions[k].disposed

=============================================================================
